---------------------------- MODULE Spec2Model ----------------------------
(***************************************************************************)
(* Model of the input-merge subsystem (co-circom-snarks/src/lib.rs) and of *)
(* the three-party garbler (mpc-core/src/protocols/rep3/yao/garbler.rs).   *)
(*                                                                         *)
(* Names (BTreeMap keys) are the integers of Names, ordered as the strings *)
(* they stand for; a BTreeMap is a function whose DOMAIN is its key set    *)
(* and which is iterated in increasing key order.  Option<T> is a sequence *)
(* of length 0 (None) or 1 (Some(v)).  eyre::Result<T> is a record with    *)
(* kind "Ok" | "Err" | "Panic" (todo!() aborts instead of returning).      *)
(***************************************************************************)
EXTENDS Integers, Sequences, FiniteSets, TLC

VARIABLES
    sources,   \* the inputs handed to merge / build_from_sources
    result,    \* what the call returned (NoResult before the call)
    op,        \* which operation produced result
    garbler,   \* the Rep3Garbler instances, by party id
    last       \* the last garbler or sharing call: its name, arguments and
               \* return values

vars == <<sources, result, op, garbler, last>>

-----------------------------------------------------------------------------
(* Bounds of the model *)

MaxLen == 2          \* longest column / value list drawn as an input
MaxEntries == 2      \* most entries the inputs of one call hold together
NumSources == 2      \* sources handed to build_from_sources
MaxStagedLen == 1    \* longest column where both inputs stage every name

Names == {1, 2}      \* two input names, "a" < "b"
FieldVals == {1, 2}  \* field elements F (only equality is used)
ShareVals == {1, 2}  \* Rep3PrimeFieldShare<F> values (only equality is used)

-----------------------------------------------------------------------------
(* Option, Vec, BTreeMap, Result *)

None == << >>
Some(v) == <<v>>
is_some(o) == o /= None
unwrap(o) == o[1]

MinNat(a, b) == IF a <= b THEN a ELSE b

Vecs(S, n) == UNION {[1..m -> S] : m \in 0..n}
Options(S) == {None} \cup {Some(v) : v \in S}

EmptyMap == << >>
contains_key(m, k) == k \in DOMAIN m
insert(m, k, v) == [x \in (DOMAIN m) \cup {k} |-> IF x = k THEN v ELSE m[x]]
remove(m, k) == [x \in (DOMAIN m) \ {k} |-> m[x]]

MinOf(S) == CHOOSE x \in S : \A y \in S : x <= y

\* the keys of a BTreeMap in iteration order
RECURSIVE keys(_)
keys(S) == IF S = {} THEN << >>
           ELSE LET k == MinOf(S) IN <<k>> \o keys(S \ {k})

Ok(v) == [kind |-> "Ok", val |-> v, msg |-> ""]
Err(m) == [kind |-> "Err", val |-> << >>, msg |-> m]
Panic(m) == [kind |-> "Panic", val |-> << >>, msg |-> m]
NoResult == [kind |-> "None", val |-> << >>, msg |-> ""]

\* Rep3ShareVecType<F, U> and MaybeRep3ShareVecType<F>
Replicated(v) == [tag |-> "Replicated", v |-> v]
SeededReplicated(v) == [tag |-> "SeededReplicated", v |-> v]
Additive(v) == [tag |-> "Additive", v |-> v]
SeededAdditive(v) == [tag |-> "SeededAdditive", v |-> v]

\* SerializeableSharedRep3Input::default()
DefaultInput ==
    [public_inputs |-> EmptyMap, maybe_public_inputs |-> EmptyMap,
     shared_inputs |-> EmptyMap, maybe_shared_inputs |-> EmptyMap]

\* SharedInput::default()
DefaultSharedInput == [public_inputs |-> EmptyMap, shared_inputs |-> EmptyMap]

-----------------------------------------------------------------------------
(* SerializeableSharedRep3Input::merge *)

\* a merge that only asks for the name, not for the same values
MergePublicLoop_PresenceOnly(public_inputs, other_public) ==
    IF \E k \in DOMAIN other_public : ~contains_key(public_inputs, k)
    THEN "Public input must be present in all files"
    ELSE ""

\* the loop over other.public_inputs: the first error, or "" when there is none
MergePublicLoop(public_inputs, other_public) ==
    LET bad == {k \in DOMAIN other_public :
                   \/ ~contains_key(public_inputs, k)
                   \/ public_inputs[k] /= other_public[k]}
    IN IF bad = {} THEN ""
       ELSE IF ~contains_key(public_inputs, MinOf(bad))
            THEN "Public input must be present in all files"
            ELSE "Public input must be same in all files"

\* the zip over one maybe-public column: (None, None) => continue
RECURSIVE MergeMaybePublicColumn(_, _, _)
MergeMaybePublicColumn(mine, theirs, i) ==
    IF i > MinNat(Len(mine), Len(theirs)) THEN Ok(<< >>)
    ELSE IF is_some(mine[i]) /\ is_some(theirs[i])
         THEN Err("Same index for maybe shared public inputs")
         ELSE LET rest == MergeMaybePublicColumn(mine, theirs, i + 1) IN
              IF rest.kind /= "Ok" THEN rest
              ELSE IF is_some(mine[i]) THEN Ok(<<mine[i]>> \o rest.val)
              ELSE IF is_some(theirs[i]) THEN Ok(<<theirs[i]>> \o rest.val)
              ELSE rest

\* the loop over other.maybe_public_inputs.keys(); ks is what is left of it
RECURSIVE MergeMaybePublicLoop(_, _, _, _, _)
MergeMaybePublicLoop(public_inputs, maybe_public_inputs, theirs, ks, merged) ==
    IF ks = << >> THEN Ok(merged)
    ELSE LET key == Head(ks) IN
         IF contains_key(public_inputs, key)
         THEN Err("is present in public inputs and maybe public inputs")
         ELSE IF ~contains_key(maybe_public_inputs, key)
         THEN Err("is must be present in both maybe public inputs")
         ELSE LET col == MergeMaybePublicColumn(maybe_public_inputs[key],
                                                theirs[key], 1) IN
              IF col.kind /= "Ok" THEN col
              ELSE MergeMaybePublicLoop(public_inputs, maybe_public_inputs,
                                        theirs, Tail(ks),
                                        insert(merged, key, col.val))

\* the loop over other.shared_inputs; ks is what is left of it
RECURSIVE MergeSharedLoop(_, _, _, _, _)
MergeSharedLoop(shared_inputs, public_inputs, other_public, theirs, ks) ==
    IF ks = << >> THEN Ok(shared_inputs)
    ELSE LET key == Head(ks) IN
         IF contains_key(shared_inputs, key)
         THEN Err("Input present in multiple input shares")
         ELSE IF contains_key(public_inputs, key) \/ contains_key(other_public, key)
         THEN Err("Input name is once in shared inputs and once in public inputs")
         ELSE MergeSharedLoop(insert(shared_inputs, key, theirs[key]),
                              public_inputs, other_public, theirs, Tail(ks))

\* a zip that keeps its own share where both sides hold one
RECURSIVE MergeMaybeSharedColumn_NoOverlapCheck(_, _, _)
MergeMaybeSharedColumn_NoOverlapCheck(shares, other_shares, i) ==
    IF i > MinNat(Len(shares), Len(other_shares)) THEN Ok(<< >>)
    ELSE LET rest == MergeMaybeSharedColumn_NoOverlapCheck(shares, other_shares, i + 1) IN
         IF is_some(shares[i]) THEN Ok(<<shares[i]>> \o rest.val)
         ELSE Ok(<<other_shares[i]>> \o rest.val)

\* a zip that puts a share of its own at an index neither side provides
RECURSIVE MergeMaybeSharedColumn_FillsAbsent(_, _, _)
MergeMaybeSharedColumn_FillsAbsent(shares, other_shares, i) ==
    IF i > MinNat(Len(shares), Len(other_shares)) THEN Ok(<< >>)
    ELSE IF is_some(shares[i]) /\ is_some(other_shares[i])
         THEN Err("Input present in both unmerged inputs")
         ELSE LET rest == MergeMaybeSharedColumn_FillsAbsent(shares, other_shares, i + 1) IN
              IF rest.kind /= "Ok" THEN rest
              ELSE IF is_some(shares[i]) THEN Ok(<<shares[i]>> \o rest.val)
              ELSE IF is_some(other_shares[i]) THEN Ok(<<other_shares[i]>> \o rest.val)
              ELSE Ok(<<Some(1)>> \o rest.val)

\* one maybe-shared column: the zip, mapped and collected into a Result<Vec<_>>
RECURSIVE MergeMaybeSharedColumn(_, _, _)
MergeMaybeSharedColumn(shares, other_shares, i) ==
    IF i > MinNat(Len(shares), Len(other_shares)) THEN Ok(<< >>)
    ELSE IF is_some(shares[i]) /\ is_some(other_shares[i])
         THEN Err("Input present in both unmerged inputs")
         ELSE LET rest == MergeMaybeSharedColumn(shares, other_shares, i + 1) IN
              IF rest.kind /= "Ok" THEN rest
              ELSE IF is_some(shares[i]) THEN Ok(<<shares[i]>> \o rest.val)
              ELSE Ok(<<other_shares[i]>> \o rest.val)

\* merged.iter().cloned().collect::<Option<Vec<_>>>()
all_some(col) == \A i \in 1..Len(col) : is_some(col[i])
unwrap_all(col) == [i \in 1..Len(col) |-> unwrap(col[i])]

\* where a merged maybe-shared column goes: a column with no absent index is
\* inserted into shared_inputs, any other stays in the maybe-shared map
PlaceMergedColumn(acc, k1, tag, merged) ==
    IF all_some(merged)
    THEN [acc EXCEPT !.shared_inputs =
              insert(acc.shared_inputs, k1, [tag |-> tag, v |-> unwrap_all(merged)])]
    ELSE [acc EXCEPT !.maybe_shared_inputs =
              insert(acc.maybe_shared_inputs, k1, [tag |-> tag, v |-> merged])]

\* the zip over both maybe-shared maps; i is the position in the zip, acc holds
\* shared_inputs and merged_maybe_shared_inputs
RECURSIVE MergeMaybeSharedLoop(_, _, _, _, _, _)
MergeMaybeSharedLoop(mine, ks1, theirs, ks2, i, acc) ==
    IF i > MinNat(Len(ks1), Len(ks2)) THEN Ok(acc)
    ELSE LET k1 == ks1[i]
             k2 == ks2[i]
         IN IF k1 /= k2
            THEN Err("Both inputs must have the same keys for unmerged elements")
            ELSE IF mine[k1].tag /= theirs[k2].tag
            THEN Err("Input cannot be merged, the share type is different")
            ELSE LET col == MergeMaybeSharedColumn(mine[k1].v, theirs[k2].v, 1) IN
                 IF col.kind /= "Ok" THEN col
                 ELSE MergeMaybeSharedLoop(mine, ks1, theirs, ks2, i + 1,
                          PlaceMergedColumn(acc, k1, mine[k1].tag, col.val))

merge(self, other) ==
    LET pub == MergePublicLoop(self.public_inputs, other.public_inputs) IN
    IF pub /= "" THEN Err(pub)
    ELSE
    LET mp == MergeMaybePublicLoop(self.public_inputs, self.maybe_public_inputs,
                                   other.maybe_public_inputs,
                                   keys(DOMAIN other.maybe_public_inputs), EmptyMap) IN
    IF mp.kind /= "Ok" THEN mp
    ELSE
    LET sh == MergeSharedLoop(self.shared_inputs, self.public_inputs,
                              other.public_inputs, other.shared_inputs,
                              keys(DOMAIN other.shared_inputs)) IN
    IF sh.kind /= "Ok" THEN sh
    ELSE
    IF Cardinality(DOMAIN self.maybe_shared_inputs)
          /= Cardinality(DOMAIN other.maybe_shared_inputs)
    THEN Err("Both inputs must have the same number of unmerged entries")
    ELSE
    LET ms == MergeMaybeSharedLoop(self.maybe_shared_inputs,
                                   keys(DOMAIN self.maybe_shared_inputs),
                                   other.maybe_shared_inputs,
                                   keys(DOMAIN other.maybe_shared_inputs), 1,
                                   [shared_inputs |-> sh.val,
                                    maybe_shared_inputs |-> EmptyMap]) IN
    IF ms.kind /= "Ok" THEN ms
    ELSE Ok([public_inputs |-> self.public_inputs,
             maybe_public_inputs |-> mp.val,
             shared_inputs |-> ms.val.shared_inputs,
             maybe_shared_inputs |-> ms.val.maybe_shared_inputs])

-----------------------------------------------------------------------------
(* SharedInput: add_public_input, add_shared_input, merge *)

add_public_input(self, key, elements) ==
    [self EXCEPT !.public_inputs = insert(self.public_inputs, key, elements)]

add_shared_input(self, key, elements) ==
    [self EXCEPT !.shared_inputs = insert(self.shared_inputs, key, elements)]

\* the loop over other.shared_inputs; ks is what is left of it
RECURSIVE SharedInputSharedLoop(_, _, _, _, _)
SharedInputSharedLoop(shared_inputs, public_inputs, other_public, theirs, ks) ==
    IF ks = << >> THEN Ok(shared_inputs)
    ELSE LET key == Head(ks) IN
         IF contains_key(shared_inputs, key)
         THEN Err("Input present in multiple input shares")
         ELSE IF contains_key(public_inputs, key) \/ contains_key(other_public, key)
         THEN Err("Input name is once in shared inputs and once in public inputs")
         ELSE SharedInputSharedLoop(insert(shared_inputs, key, theirs[key]),
                                    public_inputs, other_public, theirs, Tail(ks))

\* the loop over other.public_inputs: the first error, or "" when there is none
SharedInputPublicLoop(public_inputs, other_public) ==
    LET bad == {k \in DOMAIN other_public :
                   \/ ~contains_key(public_inputs, k)
                   \/ public_inputs[k] /= other_public[k]}
    IN IF bad = {} THEN ""
       ELSE IF ~contains_key(public_inputs, MinOf(bad))
            THEN "Public input must be present in all files"
            ELSE "Public input must be same in all files"

SharedInput_merge(self, other) ==
    LET sh == SharedInputSharedLoop(self.shared_inputs, self.public_inputs,
                                    other.public_inputs, other.shared_inputs,
                                    keys(DOMAIN other.shared_inputs)) IN
    IF sh.kind /= "Ok" THEN sh
    ELSE
    LET pub == SharedInputPublicLoop(self.public_inputs, other.public_inputs) IN
    IF pub /= "" THEN Err(pub)
    ELSE Ok([public_inputs |-> self.public_inputs, shared_inputs |-> sh.val])

-----------------------------------------------------------------------------
(* SharedInput::build_from_sources *)

\* for (k, v) in source.public_inputs
RECURSIVE BuildPublicLoop(_, _, _)
BuildPublicLoop(public_inputs, theirs, ks) ==
    IF ks = << >> THEN Ok(public_inputs)
    ELSE LET k == Head(ks) IN
         IF contains_key(public_inputs, k) /\ public_inputs[k] /= theirs[k]
         THEN Err("public inputs must match from sources")
         ELSE BuildPublicLoop(insert(public_inputs, k, theirs[k]), theirs, Tail(ks))

\* for (k, v) in source.shared_inputs
RECURSIVE BuildSharedLoop(_, _, _)
BuildSharedLoop(shared_inputs, theirs, ks) ==
    IF ks = << >> THEN Ok(shared_inputs)
    ELSE LET k == Head(ks) IN
         IF theirs[k].tag = "Replicated"
         THEN IF contains_key(shared_inputs, k)
              THEN Err("cannot provide multiple shared inputs with same key")
              ELSE BuildSharedLoop(insert(shared_inputs, k, theirs[k].v),
                                   theirs, Tail(ks))
         ELSE Panic("not yet implemented")

\* a zip that never takes the value of the incoming source
RECURSIVE BuildColumn_KeepsMine(_, _, _)
BuildColumn_KeepsMine(mine, their, i) ==
    IF i > MinNat(Len(mine), Len(their)) THEN Ok(<< >>)
    ELSE IF is_some(mine[i]) /\ is_some(their[i]) /\ mine[i] /= their[i]
         THEN Err("maybe public inputs must be same!")
         ELSE LET rest == BuildColumn_KeepsMine(mine, their, i + 1) IN
              IF rest.kind /= "Ok" THEN rest
              ELSE Ok(<<mine[i]>> \o rest.val)

\* the zip of an accumulated column with a source's column (both loops use it):
\* two concrete values must be equal, one concrete value is kept, none stays None
RECURSIVE BuildColumn(_, _, _)
BuildColumn(mine, their, i) ==
    IF i > MinNat(Len(mine), Len(their)) THEN Ok(<< >>)
    ELSE IF is_some(mine[i]) /\ is_some(their[i]) /\ mine[i] /= their[i]
         THEN Err("maybe public inputs must be same!")
         ELSE LET rest == BuildColumn(mine, their, i + 1) IN
              IF rest.kind /= "Ok" THEN rest
              ELSE IF is_some(mine[i]) THEN Ok(<<mine[i]>> \o rest.val)
              ELSE Ok(<<their[i]>> \o rest.val)

\* for (k, v) in source.maybe_public_inputs
RECURSIVE BuildMaybePublicLoop(_, _, _)
BuildMaybePublicLoop(maybe_publics, theirs, ks) ==
    IF ks = << >> THEN Ok(maybe_publics)
    ELSE LET k == Head(ks) IN
         IF contains_key(maybe_publics, k)
         THEN IF Len(maybe_publics[k]) /= Len(theirs[k])
              THEN Err("maybe public inputs must be same length")
              ELSE LET col == BuildColumn(maybe_publics[k], theirs[k], 1) IN
                   IF col.kind /= "Ok" THEN col
                   ELSE BuildMaybePublicLoop(insert(maybe_publics, k, col.val),
                                             theirs, Tail(ks))
         ELSE BuildMaybePublicLoop(insert(maybe_publics, k, theirs[k]),
                                   theirs, Tail(ks))

\* for (k, theirs) in source.maybe_shared_inputs
RECURSIVE BuildMaybeSharedLoop(_, _, _)
BuildMaybeSharedLoop(maybe_shared, theirs, ks) ==
    IF ks = << >> THEN Ok(maybe_shared)
    ELSE LET k == Head(ks) IN
         IF contains_key(maybe_shared, k)
         THEN IF maybe_shared[k].tag = "Replicated" /\ theirs[k].tag = "Replicated"
              THEN LET col == BuildColumn(maybe_shared[k].v, theirs[k].v, 1) IN
                   IF col.kind /= "Ok" THEN col
                   ELSE BuildMaybeSharedLoop(
                            insert(maybe_shared, k, Replicated(col.val)),
                            theirs, Tail(ks))
              ELSE Panic("not yet implemented")
         ELSE BuildMaybeSharedLoop(insert(maybe_shared, k, theirs[k]),
                                   theirs, Tail(ks))

\* the body of `for source in sources`: acc holds shared_input, maybe_publics
\* and maybe_shared
BuildSource(acc, source) ==
    LET pub == BuildPublicLoop(acc.public_inputs, source.public_inputs,
                               keys(DOMAIN source.public_inputs)) IN
    IF pub.kind /= "Ok" THEN pub
    ELSE
    LET sh == BuildSharedLoop(acc.shared_inputs, source.shared_inputs,
                              keys(DOMAIN source.shared_inputs)) IN
    IF sh.kind /= "Ok" THEN sh
    ELSE
    LET mp == BuildMaybePublicLoop(acc.maybe_publics, source.maybe_public_inputs,
                                   keys(DOMAIN source.maybe_public_inputs)) IN
    IF mp.kind /= "Ok" THEN mp
    ELSE
    LET ms == BuildMaybeSharedLoop(acc.maybe_shared, source.maybe_shared_inputs,
                                   keys(DOMAIN source.maybe_shared_inputs)) IN
    IF ms.kind /= "Ok" THEN ms
    ELSE Ok([public_inputs |-> pub.val, shared_inputs |-> sh.val,
             maybe_publics |-> mp.val, maybe_shared |-> ms.val])

\* for source in sources
RECURSIVE BuildFold(_, _)
BuildFold(acc, srcs) ==
    IF srcs = << >> THEN Ok(acc)
    ELSE LET r == BuildSource(acc, Head(srcs)) IN
         IF r.kind /= "Ok" THEN r ELSE BuildFold(r.val, Tail(srcs))

\* for (k, v) in maybe_publics ("now check if all is present")
RECURSIVE BuildPromotePublic(_, _, _)
BuildPromotePublic(public_inputs, maybe_publics, ks) ==
    IF ks = << >> THEN Ok(public_inputs)
    ELSE LET k == Head(ks) IN
         IF contains_key(public_inputs, k)
         THEN Err("key present in maybe shared and in public input")
         ELSE IF ~all_some(maybe_publics[k])
         THEN Err("Still unmerged public input")
         ELSE BuildPromotePublic(
                  insert(public_inputs, k, unwrap_all(maybe_publics[k])),
                  maybe_publics, Tail(ks))

\* for (k, v) in maybe_shared
RECURSIVE BuildPromoteShared(_, _, _)
BuildPromoteShared(shared_inputs, maybe_shared, ks) ==
    IF ks = << >> THEN Ok(shared_inputs)
    ELSE LET k == Head(ks) IN
         IF contains_key(shared_inputs, k)
         THEN Err("key present in maybe shared and in shared input")
         ELSE IF maybe_shared[k].tag /= "Replicated"
         THEN Panic("not yet implemented")
         ELSE IF ~all_some(maybe_shared[k].v)
         THEN Err("Still unmerged public input")
         ELSE BuildPromoteShared(
                  insert(shared_inputs, k, unwrap_all(maybe_shared[k].v)),
                  maybe_shared, Tail(ks))

build_from_sources(srcs) ==
    LET folded == BuildFold([public_inputs |-> EmptyMap, shared_inputs |-> EmptyMap,
                             maybe_publics |-> EmptyMap, maybe_shared |-> EmptyMap],
                            srcs) IN
    IF folded.kind /= "Ok" THEN folded
    ELSE
    LET pub == BuildPromotePublic(folded.val.public_inputs, folded.val.maybe_publics,
                                  keys(DOMAIN folded.val.maybe_publics)) IN
    IF pub.kind /= "Ok" THEN pub
    ELSE
    LET sh == BuildPromoteShared(folded.val.shared_inputs, folded.val.maybe_shared,
                                 keys(DOMAIN folded.val.maybe_shared)) IN
    IF sh.kind /= "Ok" THEN sh
    ELSE Ok([public_inputs |-> pub.val, shared_inputs |-> sh.val])

-----------------------------------------------------------------------------
(* The inputs the operations are applied to *)

PubVecs == Vecs(FieldVals, MaxLen)
MaybePubCols == Vecs(Options(FieldVals), MaxLen)
ShareVecs == Vecs(ShareVals, MaxLen)
MaybeShareCols == Vecs(Options(ShareVals), MaxLen)
MaybeShareVecTypes ==
    {Replicated(v) : v \in MaybeShareCols} \cup {Additive(v) : v \in MaybeShareCols}

SharedVecTypes == {Replicated(v) : v \in ShareVecs}

\* the values an entry of collection c may hold
ValuesOf(c) ==
    CASE c = "public" -> PubVecs
      [] c = "maybe_public" -> MaybePubCols
      [] c = "shared" -> SharedVecTypes
      [] c = "maybe_shared" -> MaybeShareVecTypes

\* entry e goes into its collection of input number e.src
Put(w, e) ==
    LET x == w[e.src] IN
    [w EXCEPT ![e.src] =
        CASE e.coll = "public" ->
               [x EXCEPT !.public_inputs = insert(@, e.key, e.val)]
          [] e.coll = "maybe_public" ->
               [x EXCEPT !.maybe_public_inputs = insert(@, e.key, e.val)]
          [] e.coll = "shared" ->
               [x EXCEPT !.shared_inputs = insert(@, e.key, e.val)]
          [] e.coll = "maybe_shared" ->
               [x EXCEPT !.maybe_shared_inputs = insert(@, e.key, e.val)]]

AllColls == {"public", "maybe_public", "shared", "maybe_shared"}

is_serializeable(x) == "maybe_shared_inputs" \in DOMAIN x

\* every map from some of the names to values of V
MapsOver(V) == UNION {[D -> V] : D \in SUBSET Names}

-----------------------------------------------------------------------------
(* The operations, applied to inputs already drawn *)

DoMerge ==
    /\ op = "none"
    /\ is_serializeable(sources[1])
    /\ result' = merge(sources[1], sources[2])
    /\ op' = "merge"
    /\ UNCHANGED <<sources, garbler, last>>

DoSharedInputMerge ==
    /\ op = "none"
    /\ ~is_serializeable(sources[1])
    /\ result' = SharedInput_merge(sources[1], sources[2])
    /\ op' = "SharedInput_merge"
    /\ UNCHANGED <<sources, garbler, last>>

DoBuild ==
    /\ op = "none"
    /\ result' = build_from_sources(sources)
    /\ op' = "build_from_sources"
    /\ UNCHANGED <<sources, garbler, last>>

InitCall ==
    /\ result = NoResult
    /\ op = "none"
    /\ garbler = << >>
    /\ last = [op |-> "none", args |-> << >>, env |-> << >>, n |-> 0, ret |-> << >>,
               calls |-> [and |-> 0, output |-> 0, constant |-> 0, wires |-> 0,
                          outputs_ever |-> 0]]

\* The caller fills the inputs entry by entry before the call.  Entries go in
\* by ascending (input, collection, name), which reaches every list of inputs
\* that holds at most MaxEntries entries, each along one path.
CollIndex(c) ==
    CASE c = "public" -> 0
      [] c = "maybe_public" -> 1
      [] c = "shared" -> 2
      [] c = "maybe_shared" -> 3

Field(x, c) ==
    CASE c = "public" -> x.public_inputs
      [] c = "maybe_public" -> x.maybe_public_inputs
      [] c = "shared" -> x.shared_inputs
      [] c = "maybe_shared" -> x.maybe_shared_inputs

CollsOf(x) == IF is_serializeable(x) THEN AllColls ELSE {"public", "shared"}

Rank(i, c, k) == ((i * 4) + CollIndex(c)) * (Cardinality(Names) + 1) + k

Filled(w) ==
    UNION {UNION {{Rank(i, c, k) : k \in DOMAIN Field(w[i], c)} :
                     c \in CollsOf(w[i])} : i \in DOMAIN w}

MayInsert(i, c, k) ==
    /\ op = "none"
    /\ Cardinality(Filled(sources)) < MaxEntries
    /\ \A r \in Filled(sources) : r < Rank(i, c, k)

DoInsert(colls) ==
    /\ is_serializeable(sources[1])
    /\ \E i \in DOMAIN sources, c \in colls, k \in Names :
          /\ MayInsert(i, c, k)
          /\ \E v \in ValuesOf(c) :
                sources' = Put(sources, [src |-> i, coll |-> c, key |-> k, val |-> v])
    /\ UNCHANGED <<result, op, garbler, last>>

DoInsertAny == DoInsert(AllColls)
DoInsertResolved == DoInsert({"public", "shared"})

DoAddPublicInput ==
    /\ ~is_serializeable(sources[1])
    /\ \E i \in DOMAIN sources, k \in Names, v \in PubVecs :
          /\ MayInsert(i, "public", k)
          /\ sources' = [sources EXCEPT ![i] = add_public_input(@, k, v)]
    /\ UNCHANGED <<result, op, garbler, last>>

DoAddSharedInput ==
    /\ ~is_serializeable(sources[1])
    /\ \E i \in DOMAIN sources, k \in Names, v \in ShareVecs :
          /\ MayInsert(i, "shared", k)
          /\ sources' = [sources EXCEPT ![i] = add_shared_input(@, k, v)]
    /\ UNCHANGED <<result, op, garbler, last>>

\* merge and build_from_sources on every list of NumSources inputs that holds
\* at most MaxEntries entries
Init == sources = [i \in 1..NumSources |-> DefaultInput] /\ InitCall
Next == DoInsertAny \/ DoMerge \/ DoBuild
Spec == Init /\ [][Next]_vars

\* both merges on pairs that hold resolved (public and shared) entries only
InitMergeResolved ==
    /\ sources \in {<<DefaultInput, DefaultInput>>,
                    <<DefaultSharedInput, DefaultSharedInput>>}
    /\ InitCall
NextMergeResolved ==
    \/ DoInsertResolved
    \/ DoAddPublicInput
    \/ DoAddSharedInput
    \/ DoMerge
    \/ DoSharedInputMerge
SpecMergeResolved == InitMergeResolved /\ [][NextMergeResolved]_vars

\* merge on pairs whose sides stage any of the names as maybe-shared columns
StagedInputs ==
    {[DefaultInput EXCEPT !.maybe_shared_inputs = m] :
        m \in MapsOver({Replicated(v) : v \in Vecs(Options(ShareVals), MaxStagedLen)}
                       \cup {Additive(v) : v \in Vecs(Options(ShareVals), MaxStagedLen)})}
InitMergeStaged == sources \in [1..2 -> StagedInputs] /\ InitCall
NextMergeStaged == DoMerge
SpecMergeStaged == InitMergeStaged /\ [][NextMergeStaged]_vars

\* build_from_sources on sources that stage one Replicated maybe-shared column,
\* all under the same name
ColumnSources(k) ==
    {DefaultInput}
    \cup {[DefaultInput EXCEPT !.maybe_shared_inputs = insert(EmptyMap, k, Replicated(v))] :
             v \in MaybeShareCols}
InitBuildColumns ==
    /\ sources \in UNION {[1..NumSources -> ColumnSources(k)] : k \in Names}
    /\ InitCall
NextBuildColumns == DoBuild
SpecBuildColumns == InitBuildColumns /\ [][NextBuildColumns]_vars

-----------------------------------------------------------------------------
(* Properties of merge and build_from_sources *)

Self == sources[1]
Other == sources[2]
Merged == op \in {"merge", "SharedInput_merge"}
Built == op = "build_from_sources"

PublicMismatch ==
    \E k \in DOMAIN Other.public_inputs :
        \/ k \notin DOMAIN Self.public_inputs
        \/ Self.public_inputs[k] /= Other.public_inputs[k]

\* a shared input of other that the shared-input rule of merge rejects
SharedCollision ==
    \E k \in DOMAIN Other.shared_inputs :
        \/ k \in DOMAIN Self.shared_inputs
        \/ k \in DOMAIN Self.public_inputs
        \/ k \in DOMAIN Other.public_inputs

\* C2: merge fails when a public input of other is missing from self or has
\* other values there; when every public input of other is in self with the
\* same values and no shared input of other is rejected, merge succeeds and
\* the public inputs of the result are those of self.
C2_PublicInputsMustAgree ==
    Merged =>
        /\ PublicMismatch => result.kind = "Err"
        /\ (~PublicMismatch /\ ~SharedCollision) =>
              /\ result.kind = "Ok"
              /\ result.val.public_inputs = Self.public_inputs
        /\ result.kind = "Ok" => result.val.public_inputs = Self.public_inputs

\* a merge that succeeded on a public input both sides hold
C2_Witness ==
    /\ op = "merge"
    /\ result.kind = "Ok"
    /\ \E k \in DOMAIN Other.public_inputs : Len(Other.public_inputs[k]) = MaxLen

\* the source whose column holds a concrete share at index i of column k
Contributors(k, i) ==
    {j \in DOMAIN sources : is_some(sources[j].maybe_shared_inputs[k].v[i])}

\* every source stages column k as a Replicated column of length n, and every
\* index is concrete in exactly one source
IsPartition(k, n) ==
    /\ n >= 1
    /\ \A j \in DOMAIN sources :
          /\ k \in DOMAIN sources[j].maybe_shared_inputs
          /\ sources[j].maybe_shared_inputs[k].tag = "Replicated"
          /\ Len(sources[j].maybe_shared_inputs[k].v) = n
    /\ \A i \in 1..n : Cardinality(Contributors(k, i)) = 1

\* C3: sources that stage one Replicated column of length n whose concrete
\* indices partition the column are built into a shared input of length n
\* that holds, at every index, the share of the source that provided it.
C3_PartitionResolves ==
    Built =>
        \A k \in Names, n \in 1..(MaxLen + 1) :
            IsPartition(k, n) =>
                /\ result.kind = "Ok"
                /\ k \in DOMAIN result.val.shared_inputs
                /\ Len(result.val.shared_inputs[k]) = n
                /\ \A i \in 1..n : \A j \in Contributors(k, i) :
                      result.val.shared_inputs[k][i]
                          = unwrap(sources[j].maybe_shared_inputs[k].v[i])

\* a column of full length built from sources that each provide a part of it
C3_Witness ==
    /\ Built
    /\ result.kind = "Ok"
    /\ \E k \in Names :
          /\ IsPartition(k, MaxLen)
          /\ \A j \in DOMAIN sources : \E i \in 1..MaxLen : j \in Contributors(k, i)

\* C4: build_from_sources fails whenever two sources hold a concrete value at
\* the same index of the same maybe-shared column, equal values included.
C4_OverlapAlwaysFails ==
    Built =>
        \A k \in Names : \A j1, j2 \in DOMAIN sources :
            ( /\ j1 /= j2
              /\ k \in DOMAIN sources[j1].maybe_shared_inputs
              /\ k \in DOMAIN sources[j2].maybe_shared_inputs
              /\ \E i \in 1..MinNat(Len(sources[j1].maybe_shared_inputs[k].v),
                                    Len(sources[j2].maybe_shared_inputs[k].v)) :
                    /\ is_some(sources[j1].maybe_shared_inputs[k].v[i])
                    /\ is_some(sources[j2].maybe_shared_inputs[k].v[i]) )
            => result.kind /= "Ok"

\* C6: a SharedInput that build_from_sources returns holds no name both as a
\* public and as a shared input.
C6_BuiltNamesDisjoint ==
    (Built /\ result.kind = "Ok") =>
        DOMAIN result.val.public_inputs \cap DOMAIN result.val.shared_inputs = {}

\* C7: for a maybe-public column staged on both sides with the same length n,
\* merge fails when an index is concrete on both sides, and otherwise the
\* merged column has length n and holds at every index the one concrete value
\* or None.
C7_MaybePublicKeepsPositions ==
    op = "merge" =>
        \A k \in DOMAIN Self.maybe_public_inputs \cap DOMAIN Other.maybe_public_inputs :
            LET mine == Self.maybe_public_inputs[k]
                their == Other.maybe_public_inputs[k]
            IN Len(mine) = Len(their) =>
                 IF \E i \in 1..Len(mine) : is_some(mine[i]) /\ is_some(their[i])
                 THEN result.kind = "Err"
                 ELSE result.kind = "Ok" =>
                        /\ k \in DOMAIN result.val.maybe_public_inputs
                        /\ Len(result.val.maybe_public_inputs[k]) = Len(mine)
                        /\ \A i \in 1..Len(mine) :
                              result.val.maybe_public_inputs[k][i]
                                 = IF is_some(mine[i]) THEN mine[i] ELSE their[i]

\* C8: merge fails unless both sides stage the same names as maybe-shared
\* columns, under the same tag each, and it fails when a column staged on
\* both sides under one tag holds a concrete share at one index on both sides.
C8_MaybeSharedMustMatch ==
    op = "merge" =>
        LET mine == Self.maybe_shared_inputs
            their == Other.maybe_shared_inputs
        IN /\ DOMAIN mine /= DOMAIN their => result.kind = "Err"
           /\ \A k \in DOMAIN mine \cap DOMAIN their :
                 /\ mine[k].tag /= their[k].tag => result.kind = "Err"
                 /\ ( /\ mine[k].tag = their[k].tag
                      /\ \E i \in 1..MinNat(Len(mine[k].v), Len(their[k].v)) :
                            is_some(mine[k].v[i]) /\ is_some(their[k].v[i]) )
                    => result.kind = "Err"

\* both sides stage both names under matching tags, and one index is taken twice
C8_Witness ==
    /\ op = "merge"
    /\ result.kind = "Err"
    /\ DOMAIN Self.maybe_shared_inputs = Names
    /\ DOMAIN Other.maybe_shared_inputs = Names
    /\ \A k \in Names : Self.maybe_shared_inputs[k].tag = Other.maybe_shared_inputs[k].tag
    /\ \E k \in Names : \E i \in 1..MaxStagedLen :
          /\ i <= MinNat(Len(Self.maybe_shared_inputs[k].v), Len(Other.maybe_shared_inputs[k].v))
          /\ is_some(Self.maybe_shared_inputs[k].v[i])
          /\ is_some(Other.maybe_shared_inputs[k].v[i])

\* the union of both sides' shared inputs, each entry as its side gave it
SharedUnion ==
    [k \in DOMAIN Self.shared_inputs \cup DOMAIN Other.shared_inputs |->
        IF k \in DOMAIN Other.shared_inputs THEN Other.shared_inputs[k]
        ELSE Self.shared_inputs[k]]

\* C9: merge fails when a name is a shared input of both sides or a shared
\* input of either side is a public input of either side; otherwise the shared
\* inputs of the result are the union of both sides' shared inputs.
C9_SharedInputsDisjoint ==
    Merged =>
        IF \/ DOMAIN Self.shared_inputs \cap DOMAIN Other.shared_inputs /= {}
           \/ (DOMAIN Self.shared_inputs \cup DOMAIN Other.shared_inputs)
                 \cap (DOMAIN Self.public_inputs \cup DOMAIN Other.public_inputs) /= {}
        THEN result.kind = "Err"
        ELSE result.kind = "Ok" => result.val.shared_inputs = SharedUnion

\* the staging collections as they are after the loop over the sources
Folded ==
    BuildFold([public_inputs |-> EmptyMap, shared_inputs |-> EmptyMap,
               maybe_publics |-> EmptyMap, maybe_shared |-> EmptyMap], sources)

\* C10: when a staged column still has an absent index after all sources are
\* folded, build_from_sources returns an error; when every staged column is
\* resolved, the call returns an error of another rule or a SharedInput that
\* holds every staged column under its name with its values.
C10_FinalResolution ==
    (Built /\ Folded.kind = "Ok") =>
        LET mp == Folded.val.maybe_publics
            ms == Folded.val.maybe_shared
        IN IF \/ \E k \in DOMAIN mp : ~all_some(mp[k])
              \/ \E k \in DOMAIN ms : ~all_some(ms[k].v)
           THEN result.kind = "Err"
           ELSE \/ result.kind = "Err"
                \/ /\ result.kind = "Ok"
                   /\ \A k \in DOMAIN mp :
                         /\ k \in DOMAIN result.val.public_inputs
                         /\ result.val.public_inputs[k] = unwrap_all(mp[k])
                   /\ \A k \in DOMAIN ms :
                         /\ k \in DOMAIN result.val.shared_inputs
                         /\ result.val.shared_inputs[k] = unwrap_all(ms[k].v)

\* C11: a successful merge keeps every name that either side stages as a
\* maybe-shared column in the maybe-shared collection of the result, and adds
\* no such name to the shared inputs of the result.
C11_MergeNeverPromotes ==
    (op = "merge" /\ result.kind = "Ok") =>
        \A k \in DOMAIN Self.maybe_shared_inputs \cup DOMAIN Other.maybe_shared_inputs :
            /\ k \in DOMAIN result.val.maybe_shared_inputs
            /\ k \in DOMAIN result.val.shared_inputs
                  => k \in DOMAIN Self.shared_inputs \cup DOMAIN Other.shared_inputs

\* the inputs the call was made on: merge takes the first two
Inputs == IF Merged THEN {1, 2} ELSE DOMAIN sources

\* the public values and the shares that the inputs hold under name k
PublicSupplied(k) ==
    UNION {{x.public_inputs[k][i] : i \in 1..Len(x.public_inputs[k])} :
              x \in {sources[j] : j \in {j \in Inputs :
                                           k \in DOMAIN sources[j].public_inputs}}}
    \cup UNION {{unwrap(x.maybe_public_inputs[k][i]) :
                    i \in {i \in 1..Len(x.maybe_public_inputs[k]) :
                             is_some(x.maybe_public_inputs[k][i])}} :
                   x \in {sources[j] : j \in {j \in Inputs :
                              /\ is_serializeable(sources[j])
                              /\ k \in DOMAIN sources[j].maybe_public_inputs}}}

SharesOf(x, k) ==
    IF is_serializeable(x)
    THEN {x.shared_inputs[k].v[i] : i \in 1..Len(x.shared_inputs[k].v)}
    ELSE {x.shared_inputs[k][i] : i \in 1..Len(x.shared_inputs[k])}

SharesSupplied(k) ==
    UNION {SharesOf(x, k) :
              x \in {sources[j] : j \in {j \in Inputs :
                                           k \in DOMAIN sources[j].shared_inputs}}}
    \cup UNION {{unwrap(x.maybe_shared_inputs[k].v[i]) :
                    i \in {i \in 1..Len(x.maybe_shared_inputs[k].v) :
                             is_some(x.maybe_shared_inputs[k].v[i])}} :
                   x \in {sources[j] : j \in {j \in Inputs :
                              /\ is_serializeable(sources[j])
                              /\ k \in DOMAIN sources[j].maybe_shared_inputs}}}

NamesSupplied ==
    UNION {UNION {DOMAIN Field(sources[j], c) : c \in CollsOf(sources[j])} :
              j \in Inputs}

\* C12: every name of a successful result is a name of some input, every
\* public value the result holds under a name is a public value some input
\* holds under that name, and every share likewise.
C12_NothingFabricated ==
    ((Merged \/ Built) /\ result.kind = "Ok") =>
        LET r == result.val IN
        /\ \A k \in DOMAIN r.public_inputs :
              /\ k \in NamesSupplied
              /\ \A i \in 1..Len(r.public_inputs[k]) :
                    r.public_inputs[k][i] \in PublicSupplied(k)
        /\ \A k \in DOMAIN r.shared_inputs :
              /\ k \in NamesSupplied
              /\ SharesOf(r, k) \subseteq SharesSupplied(k)
        /\ is_serializeable(r) =>
              /\ \A k \in DOMAIN r.maybe_public_inputs :
                    /\ k \in NamesSupplied
                    /\ \A i \in 1..Len(r.maybe_public_inputs[k]) :
                          is_some(r.maybe_public_inputs[k][i])
                             => unwrap(r.maybe_public_inputs[k][i]) \in PublicSupplied(k)
              /\ \A k \in DOMAIN r.maybe_shared_inputs :
                    /\ k \in NamesSupplied
                    /\ \A i \in 1..Len(r.maybe_shared_inputs[k].v) :
                          is_some(r.maybe_shared_inputs[k].v[i])
                             => unwrap(r.maybe_shared_inputs[k].v[i]) \in SharesSupplied(k)

\* a merge that resolved a maybe-shared column from shares of both sides, and
\* a build that resolved a maybe-public column from values of both sources
C12_Witness ==
    \/ /\ op = "merge"
       /\ result.kind = "Ok"
       /\ \E k \in DOMAIN result.val.shared_inputs :
             /\ k \in DOMAIN Self.maybe_shared_inputs
             /\ Len(result.val.shared_inputs[k].v) = MaxLen
             /\ \E i \in 1..MaxLen : is_some(Self.maybe_shared_inputs[k].v[i])
             /\ \E i \in 1..MaxLen : is_some(Other.maybe_shared_inputs[k].v[i])
    \/ /\ Built
       /\ result.kind = "Ok"
       /\ \E k \in DOMAIN result.val.public_inputs :
             /\ Len(result.val.public_inputs[k]) = MaxLen
             /\ \A j \in DOMAIN sources :
                   /\ k \in DOMAIN sources[j].maybe_public_inputs
                   /\ ~all_some(sources[j].maybe_public_inputs[k])

\* build_from_sources on sources that hold one shared input or stage one
\* maybe-shared column each, under any scheme tag
SchemeSources ==
    {DefaultInput}
    \cup {[DefaultInput EXCEPT !.shared_inputs = insert(EmptyMap, k, t)] :
             k \in Names,
             t \in {Replicated(v) : v \in ShareVecs}
                   \cup {SeededReplicated(v) : v \in ShareVecs}
                   \cup {Additive(v) : v \in ShareVecs}
                   \cup {SeededAdditive(v) : v \in ShareVecs}}
    \cup {[DefaultInput EXCEPT !.maybe_shared_inputs = insert(EmptyMap, k, t)] :
             k \in Names, t \in MaybeShareVecTypes}
InitBuildSchemes == sources \in [1..NumSources -> SchemeSources] /\ InitCall
NextBuildSchemes == DoBuild
SpecBuildSchemes == InitBuildSchemes /\ [][NextBuildSchemes]_vars

\* a source holds a shared input or stages a column under a scheme that
\* build_from_sources does not implement
Unsupported ==
    \E j \in DOMAIN sources :
        \/ \E k \in DOMAIN sources[j].shared_inputs :
              sources[j].shared_inputs[k].tag /= "Replicated"
        \/ \E k \in DOMAIN sources[j].maybe_shared_inputs :
              sources[j].maybe_shared_inputs[k].tag = "Additive"

\* C13: build_from_sources on sources that use an unimplemented scheme
\* returns an error: it neither panics nor returns a SharedInput.
C13_UnsupportedIsAnError ==
    (Built /\ Unsupported) => result.kind = "Err"

\* merge of either kind of input
AnyMerge(x, y) == IF is_serializeable(x) THEN merge(x, y) ELSE SharedInput_merge(x, y)

\* (a.merge(b)).merge(c) and a.merge(b.merge(c)), where ? passes a failure on
MergeLeft(a, b, c) ==
    LET ab == AnyMerge(a, b)
    IN IF ab.kind /= "Ok" THEN ab ELSE AnyMerge(ab.val, c)

MergeRight(a, b, c) ==
    LET bc == AnyMerge(b, c)
    IN IF bc.kind /= "Ok" THEN bc ELSE AnyMerge(a, bc.val)

DoMergeBothWays ==
    /\ op = "none"
    /\ result' = Ok([left |-> MergeLeft(sources[1], sources[2], sources[3]),
                     right |-> MergeRight(sources[1], sources[2], sources[3])])
    /\ op' = "merge_both_ways"
    /\ UNCHANGED <<sources, garbler, last>>

\* three inputs of one kind that hold at most MaxEntries entries, merged in
\* both groupings
InitMergeThree ==
    /\ sources \in {<<DefaultInput, DefaultInput, DefaultInput>>,
                    <<DefaultSharedInput, DefaultSharedInput, DefaultSharedInput>>}
    /\ InitCall
NextMergeThree ==
    \/ DoInsertAny
    \/ DoAddPublicInput
    \/ DoAddSharedInput
    \/ DoMergeBothWays
SpecMergeThree == InitMergeThree /\ [][NextMergeThree]_vars

\* C14: merge is associative: both groupings of three inputs fail, or both
\* succeed with the same four collections.
C14_MergeAssociative ==
    op = "merge_both_ways" =>
        \/ result.val.left.kind /= "Ok" /\ result.val.right.kind /= "Ok"
        \/ result.val.left = result.val.right

-----------------------------------------------------------------------------
(* The garbler (mpc-core/src/protocols/rep3/yao/garbler.rs)                *)
(*                                                                         *)
(* A Block is BlockBits wide instead of 128 bits; a WireMod2 is its block. *)
(* The library primitives (AES-based wire hash, SHA3-256, the seeded rng)  *)
(* are small deterministic functions that mix their arguments.  The bytes  *)
(* handed to the network for ID0 are kept in the field sent of the         *)
(* instance, one entry per send call.                                      *)

BlockBits == 2       \* width of a Block
MaxCalls == 3        \* calls the driver makes on the garbler instances
MaxWires == 2        \* longest wire list handed to the output variants
MaxDecoded == 2      \* longest wire list handed to output_garbler alone

NumBlocks == 2 ^ BlockBits
Blocks == 0..(NumBlocks - 1)
Seeds == {0, 7}                            \* values of generate_garbler_randomness
Deltas == {d \in Blocks : d % 2 = 1}       \* range of GCUtils::random_delta

ID0 == 0
ID1 == 1
ID2 == 2

RECURSIVE xor_block(_, _)
xor_block(a, b) ==
    IF a = 0 THEN b
    ELSE IF b = 0 THEN a
    ELSE (((a % 2) + (b % 2)) % 2) + 2 * xor_block(a \div 2, b \div 2)

\* WireMod2::plus, cmul, color, hash, rand
plus(x, y) == xor_block(x, y)
cmul(x, c) == IF c % 2 = 0 THEN 0 ELSE x
color(x) == x % 2
hash(x, tweak) == ((5 * x) + (3 * tweak) + (x * tweak) + 1) % NumBlocks
output_tweak(i, k) == 2 * i + k
from_seed(seed) == seed % 16
rand(rng) ==
    LET next == ((5 * rng) + 3) % 16
    IN [rng |-> next, val |-> next \div (16 \div NumBlocks)]

\* Sha3_256: default(), update(), finalize()
Sha3_256_default == 0
Sha3_256_update(h, block) == ((31 * h) + block + 1) % 1009
Sha3_256_finalize(h) == ((7 * h) + 3) % 1009

\* std::io::Error of kind InvalidData, and the error of a failed network call
InvalidData(m) == [kind |-> "Err", val |-> "InvalidData", msg |-> m]
NetworkError(m) == [kind |-> "Err", val |-> "Network", msg |-> m]

\* what the network call returned: an error, or the blocks ID0 sent
RecvErr == NetworkError("recv_many failed")
Received(n) == {RecvErr} \cup {Ok(b) : b \in Vecs(Blocks, n)}

new_with_delta(id, seed, delta) ==
    [id |-> id,
     delta |-> delta,
     current_output |-> 0,
     current_gate |-> 0,
     rng |-> from_seed(seed),
     hash |-> Sha3_256_default,
     circuit |-> << >>,
     sent |-> << >>,       \* io_context.network: what was handed to it for ID0
     recvs |-> 0,          \* io_context.network: receives from ID0 so far
     fed |-> << >>,        \* history: the blocks added since the last send_circuit
     gate_nums |-> << >>,  \* history: the gate indices garble_and_gate has used
     panicked |-> FALSE]

\* ID2 leaves a block out of its hash
add_block_to_circuit_ID2Skips(st, block) ==
    IF st.id = ID0 THEN [st EXCEPT !.panicked = TRUE]
    ELSE IF st.id = ID1 THEN [st EXCEPT !.circuit = Append(@, block),
                                        !.fed = Append(@, block)]
    ELSE st

add_block_to_circuit(st, block) ==
    IF st.panicked THEN st
    ELSE IF st.id = ID0 THEN [st EXCEPT !.panicked = TRUE]
    ELSE IF st.id = ID1 THEN [st EXCEPT !.circuit = Append(@, block),
                                        !.fed = Append(@, block)]
    ELSE [st EXCEPT !.hash = Sha3_256_update(@, block),
                    !.fed = Append(@, block)]

\* the outcome of a call that returns ret unless the instance has panicked
Returned(st, ret) ==
    [st |-> st,
     ret |-> IF st.panicked THEN Panic("Garbler should not be PartyID::ID0")
             ELSE ret]

\* ID1 keeps its buffer after the send
send_circuit_KeepsBuffer(st, ok) ==
    IF st.id = ID0 THEN [st |-> [st EXCEPT !.panicked = TRUE],
                         ret |-> Panic("Garbler should not be PartyID::ID0")]
    ELSE IF st.id = ID1 THEN
        [st |-> [st EXCEPT !.fed = << >>,
                           !.sent = Append(@, [kind |-> "circuit",
                                               data |-> st.circuit,
                                               fed |-> st.fed,
                                               ok |-> ok])],
         ret |-> IF ok THEN Ok(<< >>) ELSE NetworkError("send_many failed")]
    ELSE
        [st |-> [st EXCEPT !.hash = Sha3_256_default,
                           !.fed = << >>,
                           !.sent = Append(@, [kind |-> "digest",
                                               data |-> Sha3_256_finalize(st.hash),
                                               fed |-> st.fed,
                                               ok |-> ok])],
         ret |-> IF ok THEN Ok(<< >>) ELSE NetworkError("send failed")]

\* the sink is kept when the send fails
send_circuit_KeepsOnFailure(st, ok) ==
    IF st.id = ID0 THEN Returned([st EXCEPT !.panicked = TRUE], Ok(<< >>))
    ELSE LET msg == [kind |-> IF st.id = ID1 THEN "circuit" ELSE "digest",
                     data |-> IF st.id = ID1 THEN st.circuit
                              ELSE Sha3_256_finalize(st.hash),
                     fed |-> st.fed,
                     ok |-> ok]
         IN IF ok
            THEN [st |-> [st EXCEPT !.circuit = << >>,
                                    !.hash = Sha3_256_default,
                                    !.fed = << >>,
                                    !.sent = Append(@, msg)],
                  ret |-> Ok(<< >>)]
            ELSE [st |-> [st EXCEPT !.sent = Append(@, msg)],
                  ret |-> NetworkError("send failed")]

\* ok: whether the network accepts the send
send_circuit(st, ok) ==
    IF st.id = ID0 THEN Returned([st EXCEPT !.panicked = TRUE], Ok(<< >>))
    ELSE IF st.id = ID1 THEN
        LET empty_circuit == st.circuit
            st1 == [st EXCEPT !.circuit = << >>,
                              !.fed = << >>,
                              !.sent = Append(@, [kind |-> "circuit",
                                                  data |-> empty_circuit,
                                                  fed |-> st.fed,
                                                  ok |-> ok])]
        IN [st |-> st1,
            ret |-> IF ok THEN Ok(<< >>) ELSE NetworkError("send_many failed")]
    ELSE
        LET hash_ == st.hash
            digest == Sha3_256_finalize(hash_)
            st1 == [st EXCEPT !.hash = Sha3_256_default,
                              !.fed = << >>,
                              !.sent = Append(@, [kind |-> "digest",
                                                  data |-> digest,
                                                  fed |-> st.fed,
                                                  ok |-> ok])]
        IN [st |-> st1,
            ret |-> IF ok THEN Ok(<< >>) ELSE NetworkError("send failed")]

\* GCUtils::encode_wire: a fresh zero label and the label of val
GCUtils_encode_wire(rng, delta, val) ==
    LET r == rand(rng)
        zero == r.val
        enc == plus(zero, cmul(delta, val))
    IN [rng |-> r.rng, val |-> <<zero, enc>>]

encode_wire(st, val) ==
    LET e == GCUtils_encode_wire(st.rng, st.delta, val)
    IN Returned([st EXCEPT !.rng = e.rng], Ok(e.val))

\* GCUtils::garble_and_gate: the half-gates garbling of an AND gate
GCUtils_garble_and_gate(gate_num, a, b, delta) ==
    LET g == 2 * gate_num
        hashA == hash(a, g)
        hashAD == hash(plus(a, delta), g)
        hashB == hash(b, g + 1)
        hashBD == hash(plus(b, delta), g + 1)
        gate0 == plus(plus(hashA, hashAD), cmul(delta, color(b)))
        X == plus(hashA, cmul(gate0, color(a)))
        gate1 == plus(plus(hashB, hashBD), a)
        Y == plus(hashB, cmul(plus(gate1, a), color(b)))
    IN <<gate0, gate1, plus(X, Y)>>

\* the gate counter stays where it is
garble_and_gate_ReusesIndex(st, a, b) ==
    LET gate_num == st.current_gate
    IN [st |-> [st EXCEPT !.gate_nums = Append(@, gate_num)],
        val |-> GCUtils_garble_and_gate(gate_num, a, b, st.delta)]

garble_and_gate(st, a, b) ==
    LET gate_num == st.current_gate
    IN [st |-> [st EXCEPT !.current_gate = @ + 1,
                          !.gate_nums = Append(@, gate_num)],
        val |-> GCUtils_garble_and_gate(gate_num, a, b, st.delta)]

add_wire_to_circuit(st, wire) == add_block_to_circuit(st, wire)

RECURSIVE AddWires(_, _, _)
AddWires(st, wires, i) ==
    IF i > Len(wires) THEN st
    ELSE AddWires(add_wire_to_circuit(st, wires[i]), wires, i + 1)

add_bundle_to_circuit(st, wires) == Returned(AddWires(st, wires, 1), Ok(<< >>))

\* Fancy::constant
constant(st, x, q) ==
    LET r == rand(st.rng)
        zero == r.val
        wire == plus(zero, cmul(st.delta, x))
    IN Returned(add_wire_to_circuit([st EXCEPT !.rng = r.rng], wire), Ok(zero))

\* the output index is not advanced
output_KeepsIndex(st, x) ==
    LET i == st.current_output
        d == st.delta
        block0 == hash(plus(x, cmul(d, 0)), output_tweak(i, 0))
        block1 == hash(plus(x, cmul(d, 1)), output_tweak(i, 1))
    IN Returned(add_block_to_circuit(add_block_to_circuit(st, block0), block1),
                Ok(None))

\* Fancy::output
output(st, x) ==
    LET i == st.current_output
        d == st.delta
        st1 == [st EXCEPT !.current_output = @ + 1]
        block0 == hash(plus(x, cmul(d, 0)), output_tweak(i, 0))
        block1 == hash(plus(x, cmul(d, 1)), output_tweak(i, 1))
    IN Returned(add_block_to_circuit(add_block_to_circuit(st1, block0), block1),
                Ok(None))

\* FancyBinary::and, xor, negate
and(st, a, b) ==
    LET gg == garble_and_gate(st, a, b)
        gate0 == gg.val[1]
        gate1 == gg.val[2]
        c == gg.val[3]
    IN Returned(add_block_to_circuit(add_block_to_circuit(gg.st, gate0), gate1),
                Ok(c))

\* xor counted as a gate
xor_CountsGate(st, x, y) ==
    Returned([st EXCEPT !.current_gate = @ + 1], Ok(plus(x, y)))

xor(st, x, y) == Returned(st, Ok(plus(x, y)))

\* the wire is handed back as it came
negate_KeepsWire(st, x) == Returned(st, Ok(x))

negate(st, x) == xor(st, st.delta, x)

\* Fancy::outputs: output on every wire in turn, stopping where one fails
RECURSIVE outputs(_, _, _)
outputs(st, x, i) ==
    IF i > Len(x) THEN Returned(st, Ok(None))
    ELSE LET o == output(st, x[i])
         IN IF o.ret.kind /= "Ok" THEN o ELSE outputs(o.st, x, i + 1)

output_evaluator(st, x) ==
    LET o == outputs(st, x, 1)
    IN IF o.ret.kind = "Err" THEN [st |-> o.st, ret |-> InvalidData("Output failed")]
       ELSE IF o.ret.kind = "Panic" THEN o
       ELSE [st |-> o.st, ret |-> Ok(<< >>)]

\* rcv: what recv_many returns
read_blocks(st, rcv) == [st |-> [st EXCEPT !.recvs = @ + 1], ret |-> rcv]

\* the decoding loop, which classifies every block and keeps no bit of a
\* list that holds an invalid block
RECURSIVE OutputGarblerLoop_SkipsInvalid(_, _, _, _, _)
OutputGarblerLoop_SkipsInvalid(blocks, x, delta, i, result_) ==
    IF i > MinNat(Len(blocks), Len(x)) THEN Ok(result_)
    ELSE LET block == blocks[i]
             zero == x[i]
         IN IF block = zero
            THEN OutputGarblerLoop_SkipsInvalid(blocks, x, delta, i + 1,
                                                Append(result_, FALSE))
            ELSE IF block = plus(zero, delta)
            THEN OutputGarblerLoop_SkipsInvalid(blocks, x, delta, i + 1,
                                                Append(result_, TRUE))
            ELSE OutputGarblerLoop_SkipsInvalid(blocks, x, delta, i + 1, result_)

RECURSIVE OutputGarblerLoop(_, _, _, _, _)
OutputGarblerLoop(blocks, x, delta, i, result_) ==
    IF i > MinNat(Len(blocks), Len(x)) THEN Ok(result_)
    ELSE LET block == blocks[i]
             zero == x[i]
         IN IF block = zero
            THEN OutputGarblerLoop(blocks, x, delta, i + 1, Append(result_, FALSE))
            ELSE IF block = plus(zero, delta)
            THEN OutputGarblerLoop(blocks, x, delta, i + 1, Append(result_, TRUE))
            ELSE InvalidData("Invalid block received")

\* the blocks are decoded whatever their number
output_garbler_NoLengthCheck(st, x, rcv) ==
    LET rb == read_blocks(st, rcv)
        blocks == rb.ret
    IN IF blocks.kind = "Err" THEN rb
       ELSE [st |-> rb.st,
             ret |-> OutputGarblerLoop(blocks.val, x, st.delta, 1, << >>)]

output_garbler(st, x, rcv) ==
    LET rb == read_blocks(st, rcv)
        blocks == rb.ret
    IN IF blocks.kind = "Err" THEN rb
       ELSE IF Len(blocks.val) /= Len(x)
       THEN [st |-> rb.st, ret |-> InvalidData("Invalid number of blocks received")]
       ELSE [st |-> rb.st,
             ret |-> OutputGarblerLoop(blocks.val, x, st.delta, 1, << >>)]

\* the result is read back whether or not send_circuit succeeded
output_all_parties_IgnoresSendFailure(st, x, ok, rcv) ==
    LET oe == output_evaluator(st, x)
    IN IF oe.ret.kind /= "Ok" THEN oe
       ELSE output_garbler(send_circuit(oe.st, ok).st, x, rcv)

output_all_parties(st, x, ok, rcv) ==
    LET oe == output_evaluator(st, x)
    IN IF oe.ret.kind /= "Ok" THEN oe
       ELSE LET sc == send_circuit(oe.st, ok)
            IN IF sc.ret.kind /= "Ok" THEN sc
               ELSE output_garbler(sc.st, x, rcv)

\* ID2 reads the result back as well
output_to_id0_and_id1_BothReceive(st, x, ok, rcv) ==
    LET oe == output_evaluator(st, x)
    IN IF oe.ret.kind /= "Ok" THEN oe
       ELSE LET sc == send_circuit(oe.st, ok)
            IN IF sc.ret.kind /= "Ok" THEN sc
               ELSE LET og == output_garbler(sc.st, x, rcv)
                    IN IF og.ret.kind /= "Ok" THEN og
                       ELSE [st |-> og.st,
                             ret |-> IF sc.st.id = ID1 THEN Ok(Some(og.ret.val))
                                     ELSE Ok(None)]

output_to_id0_and_id1(st, x, ok, rcv) ==
    LET oe == output_evaluator(st, x)
    IN IF oe.ret.kind /= "Ok" THEN oe
       ELSE LET sc == send_circuit(oe.st, ok)
            IN IF sc.ret.kind /= "Ok" THEN sc
               ELSE IF sc.st.id = ID1
               THEN LET og == output_garbler(sc.st, x, rcv)
                    IN IF og.ret.kind /= "Ok" THEN og
                       ELSE [st |-> og.st, ret |-> Ok(Some(og.ret.val))]
               ELSE [st |-> sc.st, ret |-> Ok(None)]

-----------------------------------------------------------------------------
(* The driver: every call is made on each instance it drives, in the same  *)
(* order and with the same arguments; what the network does (accept or     *)
(* refuse a send, deliver blocks or fail) is chosen for each instance.     *)

Parties == DOMAIN garbler
Alive == \A p \in Parties : ~garbler[p].panicked
MayCall == last.n < MaxCalls /\ Alive

\* the caller's tally: the calls made since the last send_circuit that add
\* blocks (and, output, constant; wires: the wires of the bundles added), and
\* the output wires revealed over the life of the instances
NoCalls == [and |-> 0, output |-> 0, constant |-> 0, wires |-> 0, outputs_ever |-> 0]
Tally(name, args) ==
    LET c == last.calls IN
    CASE name = "and" -> [c EXCEPT !.and = @ + 1]
      [] name = "constant" -> [c EXCEPT !.constant = @ + 1]
      [] name = "output" -> [c EXCEPT !.output = @ + 1, !.outputs_ever = @ + 1]
      [] name = "add_bundle_to_circuit" -> [c EXCEPT !.wires = @ + Len(args[1])]
      [] name = "send_circuit" -> [NoCalls EXCEPT !.outputs_ever = c.outputs_ever]
      [] name \in {"output_all_parties", "output_to_id0_and_id1"} ->
            [NoCalls EXCEPT !.outputs_ever = c.outputs_ever + Len(args[1])]
      [] OTHER -> c

\* call: what the call does on each instance (its new state and return value)
Step(name, args, env, call) ==
    /\ MayCall
    /\ garbler' = [p \in Parties |-> call[p].st]
    /\ last' = [op |-> name, args |-> args, env |-> env, n |-> last.n + 1,
                ret |-> [p \in Parties |-> call[p].ret],
                calls |-> Tally(name, args)]
    /\ UNCHANGED <<sources, result, op>>

DoConstant ==
    \E x \in 0..1 :
        Step("constant", <<x>>, << >>, [p \in Parties |-> constant(garbler[p], x, 2)])

DoEncodeWire ==
    \E val \in 0..1 :
        Step("encode_wire", <<val>>, << >>, [p \in Parties |-> encode_wire(garbler[p], val)])

DoAnd ==
    \E a \in Blocks, b \in Blocks :
        Step("and", <<a, b>>, << >>, [p \in Parties |-> and(garbler[p], a, b)])

DoXor ==
    \E x \in Blocks, y \in Blocks :
        Step("xor", <<x, y>>, << >>, [p \in Parties |-> xor(garbler[p], x, y)])

DoNegate ==
    \E x \in Blocks :
        Step("negate", <<x>>, << >>, [p \in Parties |-> negate(garbler[p], x)])

DoOutput ==
    \E x \in Blocks :
        Step("output", <<x>>, << >>, [p \in Parties |-> output(garbler[p], x)])

DoAddBundle ==
    \E wires \in Vecs(Blocks, MaxWires) :
        Step("add_bundle_to_circuit", <<wires>>, << >>,
             [p \in Parties |-> add_bundle_to_circuit(garbler[p], wires)])

DoSendCircuit ==
    \E ok \in [Parties -> BOOLEAN] :
        Step("send_circuit", << >>, [ok |-> ok],
             [p \in Parties |-> send_circuit(garbler[p], ok[p])])

DoOutputAllParties ==
    \E x \in Vecs(Blocks, MaxWires), ok \in [Parties -> BOOLEAN],
       rcv \in Received(MaxWires) :
        Step("output_all_parties", <<x>>, [ok |-> ok, rcv |-> rcv],
             [p \in Parties |-> output_all_parties(garbler[p], x, ok[p], rcv)])

DoOutputToId0AndId1 ==
    \E x \in Vecs(Blocks, MaxWires), ok \in [Parties -> BOOLEAN],
       rcv \in Received(MaxWires) :
        Step("output_to_id0_and_id1", <<x>>, [ok |-> ok, rcv |-> rcv],
             [p \in Parties |-> output_to_id0_and_id1(garbler[p], x, ok[p], rcv)])

DoOutputGarbler ==
    \E x \in Vecs(Blocks, MaxDecoded), rcv \in Received(MaxDecoded) :
        Step("output_garbler", <<x>>, [rcv |-> rcv],
             [p \in Parties |-> output_garbler(garbler[p], x, rcv)])

NoMergeCall ==
    /\ sources = << >>
    /\ result = NoResult
    /\ op = "none"

NoGarblerCall ==
    [op |-> "none", args |-> << >>, env |-> << >>, n |-> 0, ret |-> << >>,
     calls |-> [and |-> 0, output |-> 0, constant |-> 0, wires |-> 0, outputs_ever |-> 0]]

\* the garblers ID1 and ID2 of one session, each with the delta and the
\* randomness its own context gave it, driven through the same calls
InitGarblers ==
    /\ NoMergeCall
    /\ \E seed \in [{ID1, ID2} -> Seeds], delta \in [{ID1, ID2} -> Deltas] :
           garbler = [p \in {ID1, ID2} |-> new_with_delta(p, seed[p], delta[p])]
    /\ last = NoGarblerCall
NextGarblers ==
    \/ DoConstant
    \/ DoEncodeWire
    \/ DoAnd
    \/ DoXor
    \/ DoNegate
    \/ DoOutput
    \/ DoSendCircuit
SpecGarblers == InitGarblers /\ [][NextGarblers]_vars

\* output_garbler, called once on a fresh instance
InitOutputGarbler ==
    /\ NoMergeCall
    /\ \E p \in {ID1, ID2}, seed \in Seeds, delta \in Deltas :
           garbler = [q \in {p} |-> new_with_delta(p, seed, delta)]
    /\ last = NoGarblerCall
NextOutputGarbler == last.n = 0 /\ DoOutputGarbler
SpecOutputGarbler == InitOutputGarbler /\ [][NextOutputGarbler]_vars

-----------------------------------------------------------------------------
(* Properties of the garbler *)

\* the SHA3-256 digest of a sequence of blocks
RECURSIVE Absorb(_, _, _)
Absorb(h, blocks, i) ==
    IF i > Len(blocks) THEN h
    ELSE Absorb(Sha3_256_update(h, blocks[i]), blocks, i + 1)

DigestOf(blocks) == Sha3_256_finalize(Absorb(Sha3_256_default, blocks, 1))

SameStart ==
    /\ Parties = {ID1, ID2}
    /\ garbler[ID1].delta = garbler[ID2].delta
    /\ garbler[ID1].rng = garbler[ID2].rng

Decoded(p) == last.ret[p]
Wires == last.args[1]
Delivered == last.env.rcv.val
ValidAt(p, i) ==
    \/ Delivered[i] = Wires[i]
    \/ Delivered[i] = xor_block(Wires[i], garbler[p].delta)

C21_BlockCountMismatch ==
    \A p \in Parties :
        (/\ last.op = "output_garbler"
         /\ last.env.rcv.kind = "Ok"
         /\ Len(Delivered) /= Len(Wires))
        => Decoded(p) = InvalidData("Invalid number of blocks received")

\* fewer blocks than wires and more blocks than wires, each block a label of
\* its wire
C21_Witness ==
    /\ last.op = "output_garbler"
    /\ last.env.rcv.kind = "Ok"
    /\ \E p \in Parties :
           /\ Decoded(p).kind = "Err"
           /\ \/ Len(Delivered) = 1 /\ Len(Wires) = 2 /\ ValidAt(p, 1)
              \/ Len(Delivered) = 2 /\ Len(Wires) = 1 /\ ValidAt(p, 1)

-----------------------------------------------------------------------------
(* Further properties of merge *)

\* C24: a merge where some name is a maybe-public key of exactly one of the
\* two sides fails.
C24_MaybePublicOnBothSides ==
    (/\ op = "merge"
     /\ DOMAIN Self.maybe_public_inputs /= DOMAIN Other.maybe_public_inputs)
    => result.kind = "Err"

\* C25: a SharedInput built from the empty one by add_public_input and
\* add_shared_input, and the result of a successful merge of two such, never
\* holds one name in both public_inputs and shared_inputs.
C25_OneCollectionPerName ==
    ~is_serializeable(sources[1]) =>
        /\ \A i \in DOMAIN sources :
               DOMAIN sources[i].public_inputs \cap DOMAIN sources[i].shared_inputs = {}
        /\ (op = "SharedInput_merge" /\ result.kind = "Ok") =>
               DOMAIN result.val.public_inputs \cap DOMAIN result.val.shared_inputs = {}

\* sources that stage nothing and hold Replicated shares only
ResolvedReplicated ==
    \A i \in DOMAIN sources :
        /\ is_serializeable(sources[i])
        /\ sources[i].maybe_public_inputs = EmptyMap
        /\ sources[i].maybe_shared_inputs = EmptyMap
        /\ \A k \in DOMAIN sources[i].shared_inputs :
               sources[i].shared_inputs[k].tag = "Replicated"

\* C28: for two such sources a and b, build_from_sources([a, b]) succeeds
\* exactly when a.merge(b) succeeds, and then both hold the same public
\* inputs and the same shared inputs.
C28_BuildGeneralizesMerge ==
    (Built /\ Len(sources) = 2 /\ ResolvedReplicated) =>
        LET merged == merge(Self, Other)
        IN /\ result.kind = "Ok" <=> merged.kind = "Ok"
           /\ result.kind = "Ok" =>
                 /\ result.val.public_inputs = merged.val.public_inputs
                 /\ DOMAIN result.val.shared_inputs = DOMAIN merged.val.shared_inputs
                 /\ \A k \in DOMAIN result.val.shared_inputs :
                        result.val.shared_inputs[k] = merged.val.shared_inputs[k].v

-----------------------------------------------------------------------------
(* The output variants, and single instances under any party id *)

RevealOps == {"output_all_parties", "output_to_id0_and_id1"}

\* the garblers ID1 and ID2 of one session, which share delta and randomness;
\* a reveal of up to MaxWires wires on fresh instances or after one AND gate
InitReveal ==
    /\ NoMergeCall
    /\ \E seed \in Seeds, delta \in Deltas :
           garbler = [p \in {ID1, ID2} |-> new_with_delta(p, seed, delta)]
    /\ last = NoGarblerCall
NextReveal ==
    \/ last.n = 0 /\ DoAnd
    \/ last.op \notin RevealOps /\ DoOutputAllParties
    \/ last.op \notin RevealOps /\ DoOutputToId0AndId1
SpecReveal == InitReveal /\ [][NextReveal]_vars

\* one instance under any of the three party ids
InitGarblerSolo ==
    /\ NoMergeCall
    /\ \E p \in {ID0, ID1, ID2}, seed \in Seeds, delta \in Deltas :
           garbler = [q \in {p} |-> new_with_delta(p, seed, delta)]
    /\ last = NoGarblerCall
NextGarblerSolo ==
    \/ DoConstant
    \/ DoEncodeWire
    \/ DoAnd
    \/ DoXor
    \/ DoNegate
    \/ DoOutput
    \/ DoAddBundle
    \/ DoSendCircuit
SpecGarblerSolo == InitGarblerSolo /\ [][NextGarblerSolo]_vars

\* the two blocks per wire that output adds for the wires x, the first wire
\* under output index first
RECURSIVE RevealBlocks(_, _, _, _)
RevealBlocks(x, delta, first, j) ==
    IF j > Len(x) THEN << >>
    ELSE <<hash(x[j], output_tweak(first + j - 1, 0)),
           hash(xor_block(x[j], delta), output_tweak(first + j - 1, 1))>>
         \o RevealBlocks(x, delta, first, j + 1)

\* a step that is a call of one of the output variants
RevealStep == last'.n = last.n + 1 /\ last'.op \in RevealOps

\* in that step instance p made a send whose blocks end with the reveal blocks
SentReveal(p) ==
    /\ Len(garbler'[p].sent) = Len(garbler[p].sent) + 1
    /\ garbler'[p].sent[Len(garbler'[p].sent)].fed
          = garbler[p].fed \o RevealBlocks(last'.args[1], garbler[p].delta,
                                           garbler[p].current_output, 1)

SendSucceeded(p) == garbler'[p].sent[Len(garbler'[p].sent)].ok

ReceivesIn(p) == garbler'[p].recvs - garbler[p].recvs

\* the call returned decoded bits to instance p
ReturnedBits(p) ==
    /\ last'.ret[p].kind = "Ok"
    /\ last'.op = "output_to_id0_and_id1" => last'.ret[p].val /= None

\* C15: in a call of either output variant an instance receives only after
\* it has added the reveal blocks of every wire and its send_circuit has
\* succeeded, it returns bits only after a receive, and when its send fails
\* the call returns the error and nothing is received.
C15_DecodeAfterSend ==
    [][RevealStep =>
          \A p \in Parties :
              /\ ReceivesIn(p) > 0 => SentReveal(p) /\ SendSucceeded(p)
              /\ ReturnedBits(p) => ReceivesIn(p) > 0
              /\ ~last'.env.ok[p] =>
                    /\ last'.ret[p].kind = "Err"
                    /\ ReceivesIn(p) = 0]_vars

\* a reveal of two wires after an AND gate that ID1 decoded, and one whose
\* send failed on ID2
C15_Witness ==
    /\ last.op \in RevealOps
    /\ last.n = 2
    /\ Len(last.args[1]) = 2
    /\ last.ret[ID1].kind = "Ok"
    /\ garbler[ID1].recvs = 1
    /\ ~last.env.ok[ID2]

\* C16: once send_circuit has run on an instance, no block is added to its
\* sink any more.
C16_TerminalAfterSend ==
    \A p \in Parties :
        Len(garbler[p].sent) >= 1 =>
            /\ garbler[p].fed = << >>
            /\ garbler[p].circuit = << >>
            /\ garbler[p].hash = Sha3_256_default

C18_GateIndicesSequential ==
    \A p \in Parties :
        /\ \A k \in 1..Len(garbler[p].gate_nums) : garbler[p].gate_nums[k] = k - 1
        /\ garbler[p].current_gate = Len(garbler[p].gate_nums)

\* two AND gates garbled with another call in between
C18_Witness ==
    /\ last.op = "and"
    /\ last.n = 3
    /\ \E p \in Parties : garbler[p].gate_nums = <<0, 1>>

\* C19: a step sends at most one message per instance and only send_circuit
\* sends; the message of ID1 holds the blocks added since the previous
\* send_circuit, in the order they were added, and its buffer is empty
\* afterwards; the message of ID2 is the digest of the blocks added since the
\* previous send_circuit, and ID2 sends no other kind of message.
C19_SendsExactlyTheSink ==
    [][\A p \in Parties :
          IF last'.n = last.n + 1 /\ last'.op = "send_circuit"
          THEN /\ Len(garbler'[p].sent) = Len(garbler[p].sent) + 1
               /\ \A k \in 1..Len(garbler[p].sent) :
                     garbler'[p].sent[k] = garbler[p].sent[k]
               /\ LET msg == garbler'[p].sent[Len(garbler'[p].sent)] IN
                  /\ garbler[p].id = ID1 =>
                        /\ msg.kind = "circuit"
                        /\ msg.data = garbler[p].fed
                        /\ garbler'[p].circuit = << >>
                  /\ garbler[p].id = ID2 =>
                        /\ msg.kind = "digest"
                        /\ msg.data = DigestOf(garbler[p].fed)
          ELSE garbler'[p].sent = garbler[p].sent]_vars

\* a second send_circuit, where ID1 sent the one block added after the first
\* and ID2 its digest
C19_Witness ==
    /\ last.op = "send_circuit"
    /\ Len(garbler[ID1].sent) = 2
    /\ Len(garbler[ID1].sent[2].data) = 1
    /\ Len(garbler[ID2].sent) = 2
    /\ garbler[ID2].sent[2].data = DigestOf(garbler[ID1].sent[2].data)

\* the bits output_garbler decodes from the delivered blocks, when each is
\* one of the two labels of its wire
ValidDelivery(p) ==
    /\ last'.env.rcv.kind = "Ok"
    /\ Len(last'.env.rcv.val) = Len(last'.args[1])
    /\ \A i \in 1..Len(last'.args[1]) :
          \/ last'.env.rcv.val[i] = last'.args[1][i]
          \/ last'.env.rcv.val[i] = xor_block(last'.args[1][i], garbler[p].delta)

Bits == [i \in 1..Len(last'.args[1]) |-> last'.env.rcv.val[i] /= last'.args[1][i]]

\* C20: in a call of either output variant both garblers add the same reveal
\* blocks and run send_circuit once.  When the send succeeds,
\* output_all_parties makes each garbler receive once and, for a valid
\* delivery, return the decoded bits; output_to_id0_and_id1 makes ID1
\* receive once and return Some(bits) for a valid delivery, while ID2
\* receives nothing and returns None.
C20_RevealVariants ==
    [][RevealStep =>
          /\ \A p \in Parties : SentReveal(p)
          /\ garbler'[ID1].sent[Len(garbler'[ID1].sent)].data
                = garbler'[ID2].sent[Len(garbler'[ID2].sent)].fed
          /\ \A p \in Parties : SendSucceeded(p) =>
                IF last'.op = "output_all_parties"
                THEN /\ ReceivesIn(p) = 1
                     /\ ValidDelivery(p) => last'.ret[p] = Ok(Bits)
                ELSE IF p = ID1
                THEN /\ ReceivesIn(p) = 1
                     /\ ValidDelivery(p) => last'.ret[p] = Ok(Some(Bits))
                ELSE /\ ReceivesIn(p) = 0
                     /\ last'.ret[p] = Ok(None)]_vars

\* output_to_id0_and_id1 on two wires: ID1 got the bits, ID2 got None and
\* received nothing
C20_Witness ==
    /\ last.op = "output_to_id0_and_id1"
    /\ Len(last.args[1]) = 2
    /\ last.ret[ID1].kind = "Ok"
    /\ last.ret[ID1].val = Some(<<FALSE, TRUE>>)
    /\ last.ret[ID2] = Ok(None)
    /\ garbler[ID1].recvs = 1
    /\ garbler[ID2].recvs = 0

-----------------------------------------------------------------------------
(* WitnessSharer: share_rep3 and share_shamir (co-circom-snarks/src/lib.rs) *)
(*                                                                         *)
(* The sharing functions of mpc-core (rep3::share_field_elements and its   *)
(* variants, shamir::share_field_elements) are outside the sources at      *)
(* hand; they are modelled from the specification's description of the     *)
(* schemes over the prime field of Modulus elements.                       *)

MaxWitness == 3      \* longest witness vector
MaxParties == 3      \* most parties of a Shamir sharing

Modulus == 5
F == 0..(Modulus - 1)
RngSeeds == {0, 1, 6}

\* R::gen(): the next field element of the random stream
gen(rng) ==
    LET next == ((5 * rng) + 3) % 16
    IN [rng |-> next, val |-> next % Modulus]

\* the first n elements a stream yields
RECURSIVE expand(_, _)
expand(rng, n) ==
    IF n = 0 THEN << >>
    ELSE LET g == gen(rng) IN <<g.val>> \o expand(g.rng, n - 1)

\* the stream after n elements
RECURSIVE skip(_, _)
skip(rng, n) == IF n = 0 THEN rng ELSE skip(gen(rng).rng, n - 1)

\* SeedType: a seed to expand, or the shares themselves
Seed(s) == [seed |-> s]
Shares(v) == [shares |-> v]
is_seed(x) == "seed" \in DOMAIN x

\* rep3::share_field_elements: per element two random summands a, b and
\* c = x - a - b; the parties hold (a, c), (b, a), (c, b)
rep3_share_field_elements(input, rng) ==
    LET n == Len(input)
        r == expand(rng, 2 * n)
        a == [i \in 1..n |-> r[(2 * i) - 1]]
        b == [i \in 1..n |-> r[2 * i]]
        c == [i \in 1..n |-> (input[i] + (2 * Modulus) - a[i] - b[i]) % Modulus]
    IN <<[i \in 1..n |-> [a |-> a[i], b |-> c[i]]],
         [i \in 1..n |-> [a |-> b[i], b |-> a[i]]],
         [i \in 1..n |-> [a |-> c[i], b |-> b[i]]]>>

\* rep3::share_field_elements_additive: the parties hold a, b, c
rep3_share_field_elements_additive(input, rng) ==
    LET n == Len(input)
        r == expand(rng, 2 * n)
        a == [i \in 1..n |-> r[(2 * i) - 1]]
        b == [i \in 1..n |-> r[2 * i]]
        c == [i \in 1..n |-> (input[i] + (2 * Modulus) - a[i] - b[i]) % Modulus]
    IN <<a, b, c>>

\* rep3::share_field_elements_additive_seeded: two parties hold a seed, the
\* third holds the input minus what the two seeds expand to
rep3_share_field_elements_additive_seeded(input, rng) ==
    LET n == Len(input)
        g1 == gen(rng)
        g2 == gen(g1.rng)
        b == expand(g1.val, n)
        c == expand(g2.val, n)
        a == [i \in 1..n |-> (input[i] + (2 * Modulus) - b[i] - c[i]) % Modulus]
    IN <<Shares(a), Seed(g1.val), Seed(g2.val)>>

\* rep3::share_field_elements_seeded: the replicated pairs (a, c), (b, a),
\* (c, b) with b and c held as seeds
rep3_share_field_elements_seeded(input, rng) ==
    LET add == rep3_share_field_elements_additive_seeded(input, rng)
    IN <<[a |-> add[1], b |-> add[3]],
         [a |-> add[2], b |-> add[1]],
         [a |-> add[3], b |-> add[2]]>>

\* shamir::share_field_elements: per element a random polynomial of the
\* given degree with the element as constant term, evaluated at 1..num_parties
RECURSIVE poly_eval(_, _, _)
poly_eval(coeffs, x, i) ==
    IF i > Len(coeffs) THEN 0
    ELSE (coeffs[i] + (x * poly_eval(coeffs, x, i + 1))) % Modulus

shamir_share_field_elements(input, degree, num_parties, rng) ==
    LET n == Len(input)
        poly(i) == <<input[i]>> \o expand(skip(rng, (i - 1) * degree), degree)
    IN [j \in 1..num_parties |-> [i \in 1..n |-> poly_eval(poly(i), j, 1)]]

\* SerializeableSharedRep3Input::share_rep3
share_rep3(input, rng, seeded, additive) ==
    IF seeded /\ additive THEN
        LET sh == rep3_share_field_elements_additive_seeded(input, rng)
        IN <<SeededAdditive(sh[1]), SeededAdditive(sh[2]), SeededAdditive(sh[3])>>
    ELSE IF seeded THEN
        LET sh == rep3_share_field_elements_seeded(input, rng)
        IN <<SeededReplicated(sh[1]), SeededReplicated(sh[2]), SeededReplicated(sh[3])>>
    ELSE IF additive THEN
        LET sh == rep3_share_field_elements_additive(input, rng)
        IN <<Additive(sh[1]), Additive(sh[2]), Additive(sh[3])>>
    ELSE
        LET sh == rep3_share_field_elements(input, rng)
        IN <<Replicated(sh[1]), Replicated(sh[2]), Replicated(sh[3])>>

\* &values[..k] and &values[k..], which panic when k > len
slice_to(values, k) == SubSeq(values, 1, k)
slice_from(values, k) == SubSeq(values, k + 1, Len(values))
SliceOutOfRange == Panic("range end index out of range for slice")

\* the public prefix is taken, but the whole witness is shared
SharedWitness_share_rep3_SharesAll(witness, num_pub_inputs, rng) ==
    IF num_pub_inputs > Len(witness) THEN SliceOutOfRange
    ELSE LET public_inputs == slice_to(witness, num_pub_inputs)
             sh == rep3_share_field_elements(witness, rng)
         IN Ok([j \in 1..3 |-> [public_inputs |-> public_inputs, witness |-> sh[j]]])

\* SharedWitness::share_rep3
SharedWitness_share_rep3(witness, num_pub_inputs, rng) ==
    IF num_pub_inputs > Len(witness) THEN SliceOutOfRange
    ELSE LET public_inputs == slice_to(witness, num_pub_inputs)
             witness_ == slice_from(witness, num_pub_inputs)
             sh == rep3_share_field_elements(witness_, rng)
         IN Ok([j \in 1..3 |-> [public_inputs |-> public_inputs, witness |-> sh[j]]])

\* SerializeableSharedRep3Witness::share_rep3
SerializeableSharedRep3Witness_share_rep3(witness, num_pub_inputs, rng, seeded, additive) ==
    IF num_pub_inputs > Len(witness) THEN SliceOutOfRange
    ELSE LET public_inputs == slice_to(witness, num_pub_inputs)
             witness_ == slice_from(witness, num_pub_inputs)
             sh == share_rep3(witness_, rng, seeded, additive)
         IN Ok([j \in 1..3 |-> [public_inputs |-> public_inputs, witness |-> sh[j]]])

\* every party gets the whole witness vector as its public inputs
share_shamir_PublicAll(witness, num_pub_inputs, degree, num_parties, rng) ==
    IF num_pub_inputs > Len(witness) THEN SliceOutOfRange
    ELSE LET witness_ == slice_from(witness, num_pub_inputs)
             shares == shamir_share_field_elements(witness_, degree, num_parties, rng)
         IN Ok([j \in 1..Len(shares) |->
                   [public_inputs |-> witness, witness |-> shares[j]]])

\* SharedWitness::share_shamir
share_shamir(witness, num_pub_inputs, degree, num_parties, rng) ==
    IF num_pub_inputs > Len(witness) THEN SliceOutOfRange
    ELSE LET public_inputs == slice_to(witness, num_pub_inputs)
             witness_ == slice_from(witness, num_pub_inputs)
             shares == shamir_share_field_elements(witness_, degree, num_parties, rng)
         IN Ok([j \in 1..Len(shares) |->
                   [public_inputs |-> public_inputs, witness |-> shares[j]]])

\* a sharing call: its arguments besides the witness and the random stream
Share(name, args, res) ==
    /\ op = "none"
    /\ result' = res
    /\ op' = name
    /\ last' = [last EXCEPT !.op = name, !.args = args, !.n = 1]
    /\ UNCHANGED <<sources, garbler>>

TheWitness == sources[1].values
TheRng == sources[1].rng

DoShareRep3 ==
    \E k \in 0..MaxWitness :
        Share("SharedWitness_share_rep3", <<k>>,
              SharedWitness_share_rep3(TheWitness, k, TheRng))

DoSerializeableShareRep3 ==
    \E k \in 0..MaxWitness, seeded \in BOOLEAN, additive \in BOOLEAN :
        Share("SerializeableSharedRep3Witness_share_rep3", <<k, seeded, additive>>,
              SerializeableSharedRep3Witness_share_rep3(TheWitness, k, TheRng,
                                                        seeded, additive))

DoShareShamir ==
    \E k \in 0..MaxWitness, degree \in 0..(MaxParties - 1), num_parties \in 0..MaxParties :
        Share("share_shamir", <<k, degree, num_parties>>,
              share_shamir(TheWitness, k, degree, num_parties, TheRng))

\* the sharing functions on every witness vector of at most MaxWitness elements
InitWitness ==
    /\ \E w \in Vecs(F, MaxWitness), rng \in RngSeeds :
           sources = <<[values |-> w, rng |-> rng]>>
    /\ InitCall
NextWitness ==
    \/ DoShareRep3
    \/ DoSerializeableShareRep3
    \/ DoShareShamir
SpecWitness == InitWitness /\ [][NextWitness]_vars

SplitPoint == last.args[1]
Prefix == slice_to(TheWitness, SplitPoint)
Suffix == slice_from(TheWitness, SplitPoint)

\* the vector a seed or a share vector stands for, given its length
Expanded(x, n) == IF is_seed(x) THEN expand(x.seed, n) ELSE x.shares

\* rep3 reconstruction of element i: the sum of the parties' first components
\* (replicated) or of the parties' shares (additive)
Combine(sh, i) ==
    LET n == Len(Suffix)
        part(j) ==
            CASE sh[j].tag = "Replicated" -> sh[j].v[i].a
              [] sh[j].tag = "Additive" -> sh[j].v[i]
              [] sh[j].tag = "SeededReplicated" -> Expanded(sh[j].v.a, n)[i]
              [] sh[j].tag = "SeededAdditive" -> Expanded(sh[j].v, n)[i]
    IN (part(1) + part(2) + part(3)) % Modulus

\* the length of a share vector; a vector held as seeds only has none of its
\* own and takes the length it is expanded to
ShareLen(x) ==
    CASE x.tag \in {"Replicated", "Additive"} -> Len(x.v)
      [] x.tag = "SeededAdditive" ->
            IF is_seed(x.v) THEN Len(Suffix) ELSE Len(x.v.shares)
      [] x.tag = "SeededReplicated" ->
            IF ~is_seed(x.v.a) THEN Len(x.v.a.shares)
            ELSE IF ~is_seed(x.v.b) THEN Len(x.v.b.shares)
            ELSE Len(Suffix)

\* the three shared witnesses as tagged share vectors
TaggedWitness(j) ==
    IF op = "SharedWitness_share_rep3" THEN Replicated(result.val[j].witness)
    ELSE result.val[j].witness

\* C22: share_rep3 with a split point k within the witness vector w returns
\* three values whose public inputs all are w[..k], whose shared vectors have
\* len(w) - k elements, and whose shares reconstruct at every index to the
\* element of w[k..] at that index.
C22_ShareRep3Splits ==
    (/\ op \in {"SharedWitness_share_rep3", "SerializeableSharedRep3Witness_share_rep3"}
     /\ SplitPoint <= Len(TheWitness))
    => /\ result.kind = "Ok"
       /\ DOMAIN result.val = 1..3
       /\ \A j \in 1..3 :
             /\ result.val[j].public_inputs = Prefix
             /\ ShareLen(TaggedWitness(j)) = Len(Suffix)
       /\ \A i \in 1..Len(Suffix) :
             Combine([j \in 1..3 |-> TaggedWitness(j)], i) = Suffix[i]

\* a witness of three elements split after the first, whose two secret
\* elements differ from each other and from every share of party 1
C22_Witness ==
    /\ op = "SharedWitness_share_rep3"
    /\ Len(TheWitness) = 3
    /\ SplitPoint = 1
    /\ result.kind = "Ok"
    /\ Suffix[1] /= Suffix[2]
    /\ result.val[1].witness[1].a /= Suffix[1]

\* C23: share_shamir with a split point within the witness vector returns
\* num_parties values, each with the public inputs witness[..num_pub_inputs]
\* and a shared vector of len(witness) - num_pub_inputs elements.
C23_ShareShamirShape ==
    (op = "share_shamir" /\ SplitPoint <= Len(TheWitness))
    => /\ result.kind = "Ok"
       /\ DOMAIN result.val = 1..last.args[3]
       /\ \A j \in 1..last.args[3] :
             /\ result.val[j].public_inputs = Prefix
             /\ Len(result.val[j].witness) = Len(Suffix)

\* three parties, degree 1, a witness of three elements split after the first
C23_Witness ==
    /\ op = "share_shamir"
    /\ last.args = <<1, 1, 3>>
    /\ Len(TheWitness) = 3
    /\ result.kind = "Ok"
    /\ result.val[1].witness /= result.val[2].witness

-----------------------------------------------------------------------------
(* Free-XOR gates and the sink *)

\* C26: a call of xor or negate leaves every instance as it was, whatever its
\* party id: sink (buffer, hash), gate counter, output counter, delta,
\* randomness, and the sends and receives made.
C26_XorNegateAreLocal ==
    [][(last'.n = last.n + 1 /\ last'.op \in {"xor", "negate"}) =>
          \A p \in Parties :
              /\ garbler'[p] = garbler[p]
              /\ last'.ret[p].kind = "Ok"]_vars

\* xor and negate on an instance that has garbled a gate and holds blocks
C26_Witness ==
    /\ last.n = 3
    /\ last.op \in {"xor", "negate"}
    /\ \E p \in Parties :
           /\ garbler[p].current_gate = 1
           /\ Len(garbler[p].fed) = 2
           /\ Len(garbler[p].sent) = 0

\* the label that encodes bit v on the wire with zero label zero
Label(zero, delta, v) == xor_block(zero, cmul(delta, v))

\* C27: the wire xor returns for the zero labels A0 and B0 is a zero label
\* under which the XOR of the labels of a and b encodes a XOR b; the wire
\* negate returns for A0 is a zero label under which the label of a encodes
\* NOT a; and negate undoes negate.
C27_FreeXor ==
    \A p \in Parties :
        LET delta == garbler[p].delta
            r == last.ret[p].val
        IN /\ last.op = "xor" =>
                \A a \in 0..1, b \in 0..1 :
                    Label(r, delta, (a + b) % 2)
                       = xor_block(Label(last.args[1], delta, a),
                                   Label(last.args[2], delta, b))
           /\ last.op = "negate" =>
                /\ \A a \in 0..1 :
                      Label(r, delta, 1 - a) = Label(last.args[1], delta, a)
                /\ negate(garbler[p], r).ret.val = last.args[1]

\* negate of a wire, and xor of two different non-zero wires
C27_Witness ==
    \E p \in Parties :
        \/ /\ last.op = "negate"
           /\ last.ret[p].val /= last.args[1]
        \/ /\ last.op = "xor"
           /\ last.args[1] /= last.args[2]
           /\ last.args[1] /= 0
           /\ last.args[2] /= 0

\* C29: when send_circuit has returned, with or without an error, the buffer
\* of ID1 is empty and the hash of ID2 is in its initial state; every message
\* sent covers only the blocks added after the send_circuit before it.
C29_SinkDiscardedOnSend ==
    \A p \in Parties :
        /\ last.op = "send_circuit" =>
              /\ garbler[p].circuit = << >>
              /\ garbler[p].hash = Sha3_256_default
              /\ garbler[p].fed = << >>
        /\ \A k \in 1..Len(garbler[p].sent) :
              LET msg == garbler[p].sent[k]
              IN IF garbler[p].id = ID1
                 THEN msg.data = msg.fed
                 ELSE msg.data = DigestOf(msg.fed)

\* a send_circuit that failed on an instance which had a block queued
C29_Witness ==
    /\ last.op = "send_circuit"
    /\ \E p \in Parties :
           /\ last.ret[p].kind = "Err"
           /\ garbler[p].sent[Len(garbler[p].sent)].fed /= << >>
    /\ \E p \in Parties : last.ret[p].kind = "Ok"

\* the blocks the tallied calls account for
Queued(c) == (2 * c.and) + (2 * c.output) + c.constant + c.wires

\* C30: on a garbler (ID1 or ID2) an and call adds two blocks, a constant
\* call one, and an output call the two blocks of bit 0 and bit 1 under the
\* output index, which is the number of output wires revealed before; the
\* sink holds 2 * (and calls) + 2 * (output calls) + (constant calls) +
\* (bundle wires) blocks for the calls since the last send_circuit, and that
\* many blocks ID1 sends at send_circuit.
C30_BlockAccounting ==
    [][last'.n = last.n + 1 =>
          \A p \in Parties : garbler[p].id /= ID0 =>
              LET st == garbler[p]
                  st1 == garbler'[p]
                  added == Len(st1.fed) - Len(st.fed)
              IN /\ st1.current_output = last'.calls.outputs_ever
                 /\ Len(st1.fed) = Queued(last'.calls)
                 /\ last'.op = "and" => added = 2
                 /\ last'.op = "constant" => added = 1
                 /\ last'.op = "output" =>
                       st1.fed = st.fed \o
                           <<hash(last'.args[1],
                                  output_tweak(last.calls.outputs_ever, 0)),
                             hash(xor_block(last'.args[1], st.delta),
                                  output_tweak(last.calls.outputs_ever, 1))>>
                 /\ (last'.op = "send_circuit" /\ st.id = ID1) =>
                       Len(st1.sent[Len(st1.sent)].data) = Queued(last.calls)]_vars

\* ID1 sends the three blocks of an output call and a constant call
C30_Witness ==
    /\ last.op = "send_circuit"
    /\ last.n = 3
    /\ \E p \in Parties :
           /\ garbler[p].id = ID1
           /\ garbler[p].current_output = 1
           /\ Len(garbler[p].sent[1].data) = 3

-----------------------------------------------------------------------------
(* Order of the sources, and the lengths of staged columns *)

\* build_from_sources on three sources that each stage nothing or one column
\* (maybe-shared Replicated, or maybe-public), all under the same name
StagedColumnSources(k) ==
    ColumnSources(k)
    \cup {[DefaultInput EXCEPT !.maybe_public_inputs = insert(EmptyMap, k, v)] :
             v \in MaybePubCols}
InitBuildThree ==
    /\ sources \in UNION {[1..3 -> StagedColumnSources(k)] : k \in Names}
    /\ InitCall
NextBuildThree == DoBuild
SpecBuildThree == InitBuildThree /\ [][NextBuildThree]_vars

Orders(n) == {f \in [1..n -> 1..n] : \A i, j \in 1..n : f[i] = f[j] => i = j}
Reordered(f) == [i \in 1..Len(sources) |-> sources[f[i]]]

\* every share vector of the sources, staged or not, is Replicated
ReplicatedOnly ==
    \A i \in DOMAIN sources :
        /\ \A k \in DOMAIN sources[i].shared_inputs :
               sources[i].shared_inputs[k].tag = "Replicated"
        /\ \A k \in DOMAIN sources[i].maybe_shared_inputs :
               sources[i].maybe_shared_inputs[k].tag = "Replicated"

\* C31: for sources with Replicated shares only, build_from_sources on any
\* reordering of the list fails when the call on the list fails, and returns
\* the same public and shared inputs when that call succeeds.
C31_BuildOrderIndependent ==
    (Built /\ ReplicatedOnly) =>
        \A f \in Orders(Len(sources)) :
            LET other == build_from_sources(Reordered(f))
            IN IF result.kind = "Ok" THEN other = result
               ELSE other.kind /= "Ok"

\* the lengths of the maybe-shared and of the maybe-public columns the inputs
\* stage under name k
SharedLens(k) ==
    {Len(sources[i].maybe_shared_inputs[k].v) :
        i \in {j \in DOMAIN sources : k \in DOMAIN sources[j].maybe_shared_inputs}}
PublicLens(k) ==
    {Len(sources[i].maybe_public_inputs[k]) :
        i \in {j \in DOMAIN sources : k \in DOMAIN sources[j].maybe_public_inputs}}

\* name k is resolved in the result and was not resolved in any input
PromotedShared(k) ==
    /\ k \in DOMAIN result.val.shared_inputs
    /\ \A i \in DOMAIN sources : k \notin DOMAIN sources[i].shared_inputs
PromotedPublic(k) ==
    /\ k \in DOMAIN result.val.public_inputs
    /\ \A i \in DOMAIN sources : k \notin DOMAIN sources[i].public_inputs

\* the length of the shared input k of the result (merge keeps the tag)
SharedLen(k) ==
    IF Built THEN Len(result.val.shared_inputs[k])
    ELSE Len(result.val.shared_inputs[k].v)

\* two inputs stage the same column with different lengths
LengthsDiffer ==
    \E k \in Names, i, j \in DOMAIN sources :
        \/ /\ k \in DOMAIN sources[i].maybe_shared_inputs
           /\ k \in DOMAIN sources[j].maybe_shared_inputs
           /\ Len(sources[i].maybe_shared_inputs[k].v)
                 /= Len(sources[j].maybe_shared_inputs[k].v)
        \/ /\ k \in DOMAIN sources[i].maybe_public_inputs
           /\ k \in DOMAIN sources[j].maybe_public_inputs
           /\ Len(sources[i].maybe_public_inputs[k])
                 /= Len(sources[j].maybe_public_inputs[k])

\* C32: merge and build_from_sources fail when two of their inputs stage the
\* same maybe-shared or maybe-public column with different lengths, and a
\* column they resolve has no fewer elements than the longest column staged
\* under its name.
C32_ColumnLengthPreserved ==
    (op = "merge" \/ Built) =>
        /\ LengthsDiffer => result.kind /= "Ok"
        /\ result.kind = "Ok" =>
              \A k \in Names :
                  /\ PromotedShared(k) => \A n \in SharedLens(k) : SharedLen(k) >= n
                  /\ PromotedPublic(k) =>
                        \A n \in PublicLens(k) : Len(result.val.public_inputs[k]) >= n

-----------------------------------------------------------------------------
(* Resolved shared inputs next to staged columns *)

\* merge on pairs whose sides stage maybe-shared columns and hold at most one
\* shared input each
OneSharedInput ==
    {EmptyMap}
    \cup {insert(EmptyMap, k, Replicated(v)) :
             k \in Names, v \in Vecs(ShareVals, MaxStagedLen)}
StagedAndShared ==
    {[a EXCEPT !.shared_inputs = m] : a \in StagedInputs, m \in OneSharedInput}
InitMergePromote == sources \in [1..2 -> StagedAndShared] /\ InitCall
NextMergePromote == DoMerge
SpecMergePromote == InitMergePromote /\ [][NextMergePromote]_vars

\* C33: after a successful merge every shared input of self and of other is
\* a shared input of the result, with the value its side held.
C33_SharedInputsKept ==
    (op = "merge" /\ result.kind = "Ok") =>
        \A i \in 1..2 : \A k \in DOMAIN sources[i].shared_inputs :
            /\ k \in DOMAIN result.val.shared_inputs
            /\ result.val.shared_inputs[k] = sources[i].shared_inputs[k]

=============================================================================
